---------------------------- MODULE Spec2Model ----------------------------
(***************************************************************************)
(* A model of the browser driver of this repository: the BrowserController *)
(* classes of kk.py, ooo.py and newww.py (one DevTools socket, a reader    *)
(* thread that demultiplexes inbound frames into response_queue and        *)
(* event_queue, and send_command / navigate / execute_script / type built  *)
(* on them).  The three files are variants of one design; `variant' says   *)
(* which file's code a behaviour runs.                                     *)
(***************************************************************************)
EXTENDS Integers, Sequences, FiniteSets, TLC

(* ------------------------------ bounds --------------------------------- *)
\* caller threads that may run send_command on the one controller
NThreads == 2
\* send_command calls made in one behaviour
MaxCalls == 2
\* inbound frames that answer no command (events, stray or undecodable frames)
MaxNoise == 1
\* seconds a caller is watched waiting in Spec
MaxSeconds == 1
\* navigate calls made in one behaviour
MaxNavs == 1
MaxOps == 2
MaxPolls == 2
MaxChildren == 2
MaxSelectors == 2
MaxPlans == 3

(* ------------------------- program constants --------------------------- *)
\* kk.py send_command: timeout = 10 (seconds); one tick of the model is the
\* one-second poll of response_queue.get(timeout=1)
Timeout == 10
\* kk.py navigate: self.page_loaded.wait(timeout=30); ooo.py navigate: timeout = 30
LoadTimeout == 30
max_attempts == 3

Variants == {"kk", "ooo", "newww"}
Threads  == 1..NThreads

\* ooo.py and newww.py run send_command under self.lock; kk.py has no lock
HasLock(v) == v \in {"ooo", "newww"}

VARIABLES
    variant,         \* which file's BrowserController this is
    process,         \* self.process: "none" | "running" | "terminated"
    ws,              \* self.ws: "none" | "open" | "closed" (by close()) | "peerclosed"
    reader,          \* the message handler thread: "none" | "running" | "stopped"
    command_id,      \* self.command_id
    lock,            \* self.lock: 0 when free, else the thread holding it
    response_queue,  \* self.response_queue
    event_queue,     \* self.event_queue
    page_loaded,     \* kk.py self.page_loaded (threading.Event)
    ws_in,           \* frames written by the browser, not yet received
    wire_out,        \* commands written to the socket, not yet answered
    pc,              \* per caller thread: where it is in send_command
    cmd_id,          \* per thread: the local cmd_id / command_id
    tmp,             \* per thread: the value loaded by `self.command_id += 1'
    waited,          \* per thread: seconds spent in the wait loop
    outcome,         \* per thread: how its last send_command ended
    got,             \* per thread: the response that ended its last call
    errInfo,         \* per thread: what the raised exception's text names
    call,            \* per thread: number of the call it is running (history)
    calls,           \* number of send_command calls started (history)
    allocLog,        \* ids in the order they were allocated (history)
    sent,            \* every command written to the socket so far (history)
    crossTalk,       \* a caller dropped a response of another waiting caller (history)
    noise,           \* number of unsolicited frames the browser has written
    readerDownTicks, \* seconds since the reader thread ended, capped at 1
    closeTicks,      \* seconds since close() was called, capped at 1
    atClose,         \* calls that were waiting for a response when close() ran
    atReaderStop,    \* calls that were waiting for a response when the reader ended
    navpc,           \* where the main thread (thread 1) is in navigate
    navWaited,       \* seconds navigate has waited for the load event
    current_url,     \* self.current_url
    navs,            \* number of navigate calls started (history)
    navResult,       \* how the last navigate ended: "none" | "returned" | "raised"
    callBudget,      \* send_command calls the behaviour may make
    evalOut,         \* what send_command gave the last execute_script / execute_js
    evalRet,         \* what the last execute_script / execute_js gave its caller
    field,           \* the page: the value of the input element being typed into
    typepc,          \* where the main thread is in type (or in click)
    typeResult,      \* how the last type ended: "none" | "returned" | "raised"
    polls,           \* polls made by the running wait_for_selector
    altIdx,          \* index of the site-specific selector being tried
    ops,             \* number of page operations started (history)
    waitResult,      \* how the last wait_for_selector round ended (history)
    foundOn,         \* the poll on which wait_for_selector returned True (history)
    resolved,        \* a wait_for_selector of the running primitive has returned True
    clickResult,     \* how the last click ended: "none" | "returned" | "raised"
    clickKind,       \* which words the selector given to click contains
    dom,             \* om.py: the page, the children of <body> in document order
    omAction,        \* om.py: the action of the step being executed
    selectors,       \* om.py: the candidate selectors of the step
    ompc,            \* om.py: where the step is
    omIdx,           \* om.py: index of the candidate being tried
    element,         \* om.py: the element found (an index of dom; 0: None)
    dynamic_selector,\* om.py: what get_dynamic_selector returned
    omResult,        \* om.py: step_result["status"] of the last step
    tried,           \* om.py: the lookups made for the step, in order (history)
    runpc,           \* where the run (execute_command) is
    step,            \* the step the planner returned last
    previous_steps,  \* the history handed to the planner
    current_command, \* the remaining command (0: the user's; n: step n's remaining_command)
    success,         \* the local of the attempt loop
    runStatus,       \* the status handle_command reports: "none" | "success" | "error"
    planCalls,       \* planner calls made (history)
    attemptsMade,    \* attempts made for the current step (history)
    anyFailed,       \* some executed step used up its attempts without success (history)
    planFailed,      \* the planner call raised: no answer, or one json.loads rejects (history)
    primAfterPlanFail, \* a primitive ran after the planner failed (history)
    abortCause,      \* what made the run end in error (history)
    planInput,       \* what the last planner call was given (history)
    stepsLeft,       \* ooo.py: steps of the parsed list still to execute
    launchpc,        \* where the run's frame is: constructor, launcher, connect, body, finally
    browser_type,    \* the browser kind the run was given
    attempt,         \* start_browser: the loop variable
    port,            \* self.port (0: None)
    handle,          \* self.process, as the port its process was started for (0: None)
    alive,           \* the ports whose launched process is alive
    launchLog,       \* start_browser: the attempts made, in order (history)
    startResult,     \* how start_browser ended: "none" | "returned" | "raised"
    startTargets,    \* targets the discovery call listed when start_browser returned
    connectResult,   \* how connect ended
    closeCalled,     \* close() has run (history)
    runResult,       \* the status of the result object of the run ("none": none yet)
    pressResult,     \* ooo.py press_enter: "none" | "returned" | "raised"
    connpc,          \* kk.py connect: where it is
    retry,           \* kk.py connect: the loop variable
    sockets,         \* sockets this session has connected and not closed
    readers,         \* message handler threads of this session that are running
    connected,       \* kk.py connect: what it returned ("none": not yet)
    autopc,          \* om.py execute_browser_automation: where it is
    instructions,    \* om.py: instructions['steps']
    step_index,      \* om.py: the loop variable (steps begun so far)
    steps_results,   \* om.py: results["steps_results"]
    results_status   \* om.py: the status of what execute_browser_automation returns

vars == <<variant, process, ws, reader, command_id, lock, response_queue,
          event_queue, page_loaded, ws_in, wire_out, pc, cmd_id, tmp, waited,
          outcome, got, errInfo, call, calls, allocLog, sent, crossTalk,
          noise, readerDownTicks, closeTicks, atClose, atReaderStop,
          navpc, navWaited, current_url, navs, navResult, callBudget,
          evalOut, evalRet, field, typepc, typeResult, polls, altIdx, ops,
          waitResult, foundOn, resolved, clickResult, clickKind,
          dom, omAction, selectors, ompc, omIdx, element, dynamic_selector,
          omResult, tried,
          runpc, step, previous_steps, current_command, success, runStatus,
          planCalls, attemptsMade, anyFailed, planFailed, primAfterPlanFail,
          abortCause, planInput, stepsLeft,
          launchpc, browser_type, attempt, port, handle, alive, launchLog,
          startResult, startTargets, connectResult, closeCalled, runResult,
          pressResult, connpc, retry, sockets, readers, connected,
          autopc, instructions, step_index, steps_results, results_status>>

(* ------------------------------ frames --------------------------------- *)
\* An inbound frame.  text: "json" (decodes to an object), "garbage" (json.loads
\* raises) or "empty" (recv returned an empty message).  hasId / hasMethod say
\* which keys the decoded object carries; call names the command that the
\* browser answered with this frame (0: none).
NoFrame == [text |-> "json", hasId |-> FALSE, id |-> 0, hasMethod |-> FALSE,
            method |-> "", hasError |-> FALSE, call |-> 0]

ResponseFrame(c, err) == [NoFrame EXCEPT !.hasId = TRUE, !.id = c.id,
                                         !.hasError = err, !.call = c.call]

EventFrame(m) == [NoFrame EXCEPT !.hasMethod = TRUE, !.method = m]

\* a response to an id no command of this session carries (ids start at 1)
StrayFrame == [NoFrame EXCEPT !.hasId = TRUE]

NoiseFrames == {EventFrame("Page.loadEventFired"), EventFrame("Page.frameNavigated"),
                StrayFrame, NoFrame,
                [NoFrame EXCEPT !.text = "garbage"], [NoFrame EXCEPT !.text = "empty"]}


(* --------------------------- pure helpers ------------------------------ *)
Min(a, b) == IF a < b THEN a ELSE b

\* the wait of an ooo.py / newww.py caller has no deadline; the model stops
\* counting its seconds one past kk.py's deadline
MaxWait == Timeout + 1

Waiting == {t \in Threads : pc[t] = "wait"}

\* the calls that are waiting for their response
WaitingCalls == {call[t] : t \in Waiting}

\* send_command: `if response['id'] == cmd_id'
Matches(r, id) == r.id = id

\* a send_command that never looks at the error field
CarriesErrorIgnored(r) == FALSE

\* send_command: `if 'error' in response'
CarriesError(r) == r.hasError

\* What the exception raised for an error response names.  kk.py formats the
\* whole error object (its code and message); ooo.py and newww.py format
\* response['error'].get('message', ...).  None of them names the method.
ErrorText(v) == IF v = "kk" THEN {"code", "message"} ELSE {"message"}

\* kk.py: raise Exception(f"Command timed out: {method}")
TimeoutText == {"method"}

\* message handler: `if 'id' in data: ... elif 'method' in data: ...'
RouteOf(f) == IF f.hasId THEN "response"
              ELSE IF f.hasMethod THEN "event"
              ELSE "drop"

\* message handler: does the loop end on this frame?  json.loads raises on
\* text that is no JSON (an empty message included); ooo.py and newww.py
\* test `if not message' first and break.
EndsReader(v, f) == f.text # "json"

\* a message handler that never sets the latch
SetsPageLoadedNever(v, f) == FALSE

\* kk.py message handler: `if 'method' in data and data['method'] == 'Page.loadEventFired''
SetsPageLoaded(v, f) == v = "kk" /\ f.hasMethod /\ f.method = "Page.loadEventFired"

(* ------------------- Runtime.evaluate result objects ------------------- *)
\* the Python values a script evaluation can hand back: True, False, None, the
\* text being typed, another string, the empty string, and the description
\* string of a remote object
PyValues == {"True", "False", "None", "Text", "Other", "Empty"}

\* Python truth of a value: "if result:", "if not result:"
Truthy(x) == x \in {"True", "Text", "Other", "Desc"}

\* the dict send_command returns for Runtime.evaluate: whether it has 'result',
\* whether that has 'value' and 'description', and whether the browser reported
\* a thrown exception (exceptionDetails)
NoResult ==
    [hasResult |-> FALSE, hasValue |-> FALSE, value |-> "None",
     hasDescription |-> FALSE, hasException |-> FALSE]
ValueResult(x) == [NoResult EXCEPT !.hasResult = TRUE, !.hasValue = TRUE, !.value = x]
UndefinedResult == [NoResult EXCEPT !.hasResult = TRUE]
ObjectResult == [NoResult EXCEPT !.hasResult = TRUE, !.hasDescription = TRUE]
ThrownError == [ObjectResult EXCEPT !.hasException = TRUE]
ThrownValue(x) == [ValueResult(x) EXCEPT !.hasException = TRUE]
EvalResults ==
    {NoResult, UndefinedResult, ObjectResult, ThrownError}
        \cup {ValueResult(x) : x \in PyValues}
        \cup {ThrownValue(x) : x \in PyValues}

\* how the send_command of an evaluation ends: it returns a dict or it raises
SendOutcomes ==
    {[ok |-> TRUE, res |-> r] : r \in EvalResults}
        \cup {[ok |-> FALSE, res |-> NoResult]}

\* no send_command outcome
NoOutcome == [ok |-> FALSE, res |-> NoResult]

Returned(x) == [kind |-> "return", val |-> x]
Raised(e) == [kind |-> "raise", val |-> e]

(* ------------------------------- Init ---------------------------------- *)
sessionVars == <<variant, process, ws, reader>>
queueVars   == <<response_queue, event_queue, page_loaded>>
wireVars    == <<ws_in, wire_out, noise>>
callerVars  == <<pc, cmd_id, tmp, waited, outcome, got, errInfo, call, calls,
                 allocLog, sent, crossTalk, command_id, lock>>
clockVars   == <<readerDownTicks, closeTicks, atClose, atReaderStop>>
navVars     == <<navpc, navWaited, current_url, navs, navResult>>
waitVars    == <<waitResult, foundOn, resolved>>
clickVars   == <<clickResult, clickKind>>
pageVars    == <<evalOut, evalRet, field, typepc, typeResult, polls, altIdx, ops,
                 waitVars, clickVars>>
omVars      == <<dom, omAction, selectors, ompc, omIdx, element, dynamic_selector,
                 omResult, tried>>
runVars     == <<runpc, step, previous_steps, current_command, success, runStatus,
                 planCalls, attemptsMade, anyFailed, planFailed, primAfterPlanFail,
                 abortCause, planInput, stepsLeft>>
launchVars  == <<launchpc, browser_type, attempt, port, handle, alive, launchLog,
                 startResult, startTargets, connectResult, closeCalled, runResult>>
connVars    == <<connpc, retry, sockets, readers, connected>>
autoVars    == <<autopc, instructions, step_index, steps_results, results_status>>
moreVars    == <<pressResult, connVars, autoVars>>
otherVars   == <<navVars, callBudget, pageVars, omVars, runVars, launchVars, moreVars>>

\* om.py: a CSS selector.  The supplied candidates are id selectors; getSelector
\* builds '#' + id, or a path ending in tag + ':nth-child(n)'.  NoSelector is None.
NoSelector == [kind |-> "none", id |-> 0, tag |-> "", n |-> 0]
IdSelector(i) == [NoSelector EXCEPT !.kind = "id", !.id = i]
NthChildSelector(t, k) == [NoSelector EXCEPT !.kind = "nth", !.tag = t, !.n = k]

\* om.py execute_browser_automation: no step is being executed
OmIdle ==
    /\ omAction = "none"
    /\ selectors = <<>>
    /\ ompc = "idle"
    /\ omIdx = 0
    /\ element = 0
    /\ dynamic_selector = NoSelector
    /\ omResult = "none"
    /\ tried = <<>>

\* a planner step: n is the number of the planner call that produced it (its
\* remaining_command is "what remains after step n"); shape says which keys of
\* the response format the JSON object has
NoStep == [n |-> 0, completed |-> FALSE, action |-> "none", shape |-> "full"]

\* execute_command has not been called
RunIdle ==
    /\ runpc = "idle"
    /\ step = NoStep
    /\ previous_steps = <<>>
    /\ current_command = 0
    /\ success = FALSE
    /\ runStatus = "none"
    /\ planCalls = 0
    /\ attemptsMade = 0
    /\ anyFailed = FALSE
    /\ planFailed = FALSE
    /\ primAfterPlanFail = FALSE
    /\ abortCause = "none"
    /\ planInput = [remaining |-> 0, history |-> <<>>]
    /\ stepsLeft = 0

\* no run has been started: no controller has been constructed for one
LaunchIdle ==
    /\ launchpc = "idle"
    /\ browser_type = "chrome"
    /\ attempt = 0
    /\ port = 0
    /\ handle = 0
    /\ alive = {}
    /\ launchLog = <<>>
    /\ startResult = "none"
    /\ startTargets = 0
    /\ connectResult = "none"
    /\ closeCalled = FALSE
    /\ runResult = "none"

\* no press_enter, no connect of kk.py and no execute_browser_automation has begun
MoreIdle ==
    /\ pressResult = "none"
    /\ connpc = "idle"
    /\ retry = 0
    /\ sockets = 0
    /\ readers = 0
    /\ connected = "none"
    /\ autopc = "idle"
    /\ instructions = <<>>
    /\ step_index = 0
    /\ steps_results = <<>>
    /\ results_status = "none"

\* BrowserController.__init__
InitController ==
    /\ process = "none"
    /\ ws = "none"
    /\ reader = "none"
    /\ command_id = 1
    /\ lock = 0
    /\ response_queue = <<>>
    /\ event_queue = <<>>
    /\ page_loaded = FALSE
    /\ current_url = "none"

\* nothing sent, nothing received, no caller inside any method
InitIdle ==
    /\ ws_in = <<>>
    /\ wire_out = {}
    /\ pc = [t \in Threads |-> "idle"]
    /\ cmd_id = [t \in Threads |-> 0]
    /\ tmp = [t \in Threads |-> 0]
    /\ waited = [t \in Threads |-> 0]
    /\ outcome = [t \in Threads |-> "none"]
    /\ got = [t \in Threads |-> NoFrame]
    /\ errInfo = [t \in Threads |-> {}]
    /\ call = [t \in Threads |-> 0]
    /\ calls = 0
    /\ allocLog = <<>>
    /\ sent = {}
    /\ crossTalk = FALSE
    /\ noise = 0
    /\ readerDownTicks = 0
    /\ closeTicks = 0
    /\ atClose = {}
    /\ atReaderStop = {}
    /\ navpc = "idle"
    /\ navWaited = 0
    /\ navs = 0
    /\ navResult = "none"
    /\ evalOut = [ok |-> FALSE, res |-> NoResult]
    /\ evalRet = [kind |-> "none", val |-> "None"]
    /\ field = "Empty"
    /\ typepc = "idle"
    /\ typeResult = "none"
    /\ polls = 0
    /\ altIdx = 0
    /\ ops = 0
    /\ waitResult = "none"
    /\ foundOn = NoOutcome
    /\ resolved = FALSE
    /\ clickResult = "none"
    /\ clickKind = "other"
    /\ OmIdle
    /\ RunIdle
    /\ LaunchIdle
    /\ MoreIdle

Init ==
    /\ variant \in Variants
    /\ InitController
    /\ InitIdle
    /\ callBudget = MaxCalls
    /\ dom = <<>>

(* ------------------------ launch and connect --------------------------- *)
\* start_browser, the attempt that succeeds: subprocess.Popen(cmd)
StartBrowser ==
    /\ process = "none"
    /\ process' = "running"
    /\ UNCHANGED <<variant, ws, reader, queueVars, wireVars, callerVars,
                   clockVars, otherVars>>

\* connect: self.ws = websocket.WebSocket(); self.ws.connect(url);
\* threading.Thread(target=message_handler).start()
Connect ==
    /\ process = "running"
    /\ ws = "none"
    /\ ws' = "open"
    /\ reader' = "running"
    /\ UNCHANGED <<variant, process, queueVars, wireVars, callerVars,
                   clockVars, otherVars>>

(* ---------------------------- send_command ----------------------------- *)
\* a caller enters send_command: the history variables of the new call
Enter(t) ==
    /\ pc[t] = "idle"
    /\ ws # "none"
    /\ calls < callBudget
    /\ calls' = calls + 1
    /\ call' = [call EXCEPT ![t] = calls + 1]

\* the call of thread t ends with outcome o; its locals are gone
Leave(t, o, r, info) ==
    /\ pc' = [pc EXCEPT ![t] = "idle"]
    /\ cmd_id' = [cmd_id EXCEPT ![t] = 0]
    /\ tmp' = [tmp EXCEPT ![t] = 0]
    /\ waited' = [waited EXCEPT ![t] = 0]
    /\ outcome' = [outcome EXCEPT ![t] = o]
    /\ got' = [got EXCEPT ![t] = r]
    /\ errInfo' = [errInfo EXCEPT ![t] = info]

\* self.ws.send(command): the frame is on the socket
Written(id, c) ==
    /\ wire_out' = wire_out \cup {[id |-> id, call |-> c]}
    /\ sent' = sent \cup {[id |-> id, call |-> c]}

\* the caller takes response r off response_queue: return its result, raise
\* for its error, or drop it and keep waiting
Take(t, r) ==
    IF Matches(r, cmd_id[t])
    THEN /\ IF CarriesError(r)
            THEN Leave(t, "error", r, ErrorText(variant))
            ELSE Leave(t, "result", r, {})
         /\ UNCHANGED crossTalk
    ELSE /\ crossTalk' = (crossTalk \/ \E u \in Waiting \ {t} : cmd_id[u] = r.id)
         /\ UNCHANGED <<pc, cmd_id, tmp, waited, outcome, got, errInfo>>

\* kk.py: cmd_id = self.command_id
KKRead(t) ==
    /\ variant = "kk"
    /\ Enter(t)
    /\ cmd_id' = [cmd_id EXCEPT ![t] = command_id]
    /\ allocLog' = Append(allocLog, command_id)
    /\ pc' = [pc EXCEPT ![t] = "load"]
    /\ outcome' = [outcome EXCEPT ![t] = "none"]
    /\ got' = [got EXCEPT ![t] = NoFrame]
    /\ errInfo' = [errInfo EXCEPT ![t] = {}]
    /\ UNCHANGED <<sessionVars, queueVars, wireVars, clockVars, otherVars,
                   tmp, waited, sent, crossTalk, command_id, lock>>

\* kk.py: self.command_id += 1, the load of the attribute
KKLoad(t) ==
    /\ pc[t] = "load"
    /\ tmp' = [tmp EXCEPT ![t] = command_id]
    /\ pc' = [pc EXCEPT ![t] = "store"]
    /\ UNCHANGED <<sessionVars, queueVars, wireVars, clockVars, otherVars,
                   cmd_id, waited, outcome, got, errInfo, call, calls,
                   allocLog, sent, crossTalk, command_id, lock>>

\* kk.py: self.command_id += 1, the store of the sum
KKStore(t) ==
    /\ pc[t] = "store"
    /\ command_id' = tmp[t] + 1
    /\ pc' = [pc EXCEPT ![t] = "send"]
    /\ UNCHANGED <<sessionVars, queueVars, wireVars, clockVars, otherVars,
                   cmd_id, tmp, waited, outcome, got, errInfo, call, calls,
                   allocLog, sent, crossTalk, lock>>

\* kk.py: self.ws.send(command); start_time = time.time().  Sending on a socket
\* that is no longer open raises out of send_command.
KKSend(t) ==
    /\ pc[t] = "send"
    /\ IF ws = "open"
       THEN /\ Written(cmd_id[t], call[t])
            /\ pc' = [pc EXCEPT ![t] = "wait"]
            /\ UNCHANGED <<cmd_id, tmp, waited, outcome, got, errInfo>>
       ELSE /\ Leave(t, "sendfail", NoFrame, {})
            /\ UNCHANGED <<wire_out, sent>>
    /\ UNCHANGED <<sessionVars, queueVars, clockVars, otherVars, ws_in, noise,
                   call, calls, allocLog, crossTalk, command_id, lock>>

\* kk.py: response = self.response_queue.get(timeout=1) returned a response
KKGet(t) ==
    /\ variant = "kk"
    /\ pc[t] = "wait"
    /\ waited[t] < Timeout
    /\ response_queue # <<>>
    /\ response_queue' = Tail(response_queue)
    /\ Take(t, Head(response_queue))
    /\ UNCHANGED <<sessionVars, event_queue, page_loaded, wireVars, clockVars,
                   otherVars, call, calls, allocLog, sent, command_id, lock>>

\* kk.py: the while condition fails: raise Exception(f"Command timed out: {method}")
KKTimeout(t) ==
    /\ variant = "kk"
    /\ pc[t] = "wait"
    /\ waited[t] >= Timeout
    /\ Leave(t, "timeout", NoFrame, TimeoutText)
    /\ UNCHANGED <<sessionVars, queueVars, wireVars, clockVars, otherVars,
                   call, calls, allocLog, sent, crossTalk, command_id, lock>>

\* ooo.py, newww.py: with self.lock: command_id = self.command_id;
\* self.command_id += 1; self.ws.send(json.dumps(command))
LockedSend(t) ==
    /\ HasLock(variant)
    /\ lock = 0
    /\ Enter(t)
    /\ allocLog' = Append(allocLog, command_id)
    /\ command_id' = command_id + 1
    /\ got' = [got EXCEPT ![t] = NoFrame]
    /\ errInfo' = [errInfo EXCEPT ![t] = {}]
    /\ IF ws = "open"
       THEN /\ Written(command_id, calls + 1)
            /\ cmd_id' = [cmd_id EXCEPT ![t] = command_id]
            /\ pc' = [pc EXCEPT ![t] = "wait"]
            /\ outcome' = [outcome EXCEPT ![t] = "none"]
            /\ lock' = t
       ELSE /\ outcome' = [outcome EXCEPT ![t] = "sendfail"]
            /\ UNCHANGED <<wire_out, sent, cmd_id, pc, lock>>
    /\ UNCHANGED <<sessionVars, queueVars, clockVars, otherVars, ws_in, noise,
                   tmp, waited, crossTalk>>

\* ooo.py, newww.py: response = self.response_queue.get() returned a response;
\* leaving the with block releases the lock
LockedGet(t) ==
    /\ HasLock(variant)
    /\ pc[t] = "wait"
    /\ response_queue # <<>>
    /\ response_queue' = Tail(response_queue)
    /\ Take(t, Head(response_queue))
    /\ lock' = IF Matches(Head(response_queue), cmd_id[t]) THEN 0 ELSE lock
    /\ UNCHANGED <<sessionVars, event_queue, page_loaded, wireVars, clockVars,
                   otherVars, call, calls, allocLog, sent, command_id>>

(* -------------------------- the reader thread -------------------------- *)
\* message handler, one turn of the loop on a received frame
ReaderRecv ==
    /\ reader = "running"
    /\ ws_in # <<>>
    /\ LET f == Head(ws_in) IN
         /\ ws_in' = Tail(ws_in)
         /\ IF EndsReader(variant, f)
            THEN /\ reader' = "stopped"
                 /\ atReaderStop' = WaitingCalls
                 /\ UNCHANGED queueVars
            ELSE /\ UNCHANGED <<reader, atReaderStop>>
                 /\ page_loaded' = (page_loaded \/ SetsPageLoaded(variant, f))
                 /\ response_queue' = IF RouteOf(f) = "response"
                                      THEN Append(response_queue, f)
                                      ELSE response_queue
                 /\ event_queue' = IF RouteOf(f) = "event"
                                   THEN Append(event_queue, f)
                                   ELSE event_queue
    /\ UNCHANGED <<variant, process, ws, wire_out, noise, callerVars,
                   readerDownTicks, closeTicks, atClose, otherVars>>

\* message handler: self.ws.recv() raises on a socket that is closed; break
ReaderFail ==
    /\ reader = "running"
    /\ ws_in = <<>>
    /\ ws \in {"closed", "peerclosed"}
    /\ reader' = "stopped"
    /\ atReaderStop' = WaitingCalls
    /\ UNCHANGED <<variant, process, ws, queueVars, wireVars, callerVars,
                   readerDownTicks, closeTicks, atClose, otherVars>>

(* ----------------------------- the browser ----------------------------- *)
\* the browser answers an outstanding command, with a result or an error
BrowserRespond(c, err) ==
    /\ ws = "open"
    /\ c \in wire_out
    /\ wire_out' = wire_out \ {c}
    /\ ws_in' = Append(ws_in, ResponseFrame(c, err))
    /\ UNCHANGED <<sessionVars, queueVars, noise, callerVars, clockVars, otherVars>>

\* the browser writes a frame that answers no command
BrowserNoise(f) ==
    /\ ws = "open"
    /\ noise < MaxNoise
    /\ noise' = noise + 1
    /\ ws_in' = Append(ws_in, f)
    /\ UNCHANGED <<sessionVars, queueVars, wire_out, callerVars, clockVars, otherVars>>

\* the browser closes the socket (it exits, or the tab is closed)
PeerClose ==
    /\ ws = "open"
    /\ ws' = "peerclosed"
    /\ UNCHANGED <<variant, process, reader, queueVars, wireVars, callerVars,
                   clockVars, otherVars>>

(* -------------------------------- close -------------------------------- *)
\* close: self.ws.close(); self.process.terminate().  Frames not yet received
\* are lost with the socket.
Close ==
    /\ ws \in {"open", "peerclosed"}
    /\ ws' = "closed"
    /\ ws_in' = <<>>
    /\ process' = IF process = "none" THEN "none" ELSE "terminated"
    /\ atClose' = WaitingCalls
    /\ UNCHANGED <<variant, reader, queueVars, wire_out, noise, callerVars,
                   readerDownTicks, closeTicks, atReaderStop, otherVars>>

(* -------------------------------- time --------------------------------- *)
\* A program step that is enabled takes no time: a second passes only when no
\* thread can move without it.
Quiescent ==
    /\ \A t \in Threads : pc[t] \in {"idle", "wait"}
    /\ reader = "running" => (ws_in = <<>> /\ ws = "open")
    /\ Waiting # {} => response_queue = <<>>
    /\ variant = "kk" => \A t \in Waiting : waited[t] < Timeout

\* one second passes: response_queue.get(timeout=1) of every waiting kk.py
\* caller raises queue.Empty; the blocking get of ooo.py / newww.py goes on
Tick ==
    /\ Waiting # {}
    /\ Quiescent
    /\ waited' = [t \in Threads |->
                    IF t \in Waiting THEN Min(waited[t] + 1, MaxWait) ELSE waited[t]]
    /\ readerDownTicks' = IF reader = "stopped" THEN 1 ELSE readerDownTicks
    /\ closeTicks' = IF ws = "closed" THEN 1 ELSE closeTicks
    /\ UNCHANGED <<sessionVars, queueVars, wireVars, atClose, atReaderStop,
                   otherVars, pc, cmd_id, tmp, outcome, got, errInfo, call, calls,
                   allocLog, sent, crossTalk, command_id, lock>>

(* ------------------------------ navigate ------------------------------- *)
\* thread 1 is the thread that built the controller (execute_command, the
\* Flask request handler); it is the one that navigates
Main == 1

Urls == {"https://example.test", "https://www.youtube.com/"}

\* ooo.py, newww.py navigate: self.send_command('Page.enable', {}) comes first
EnablesFirst(v) == v # "kk"

\* the load wait of navigate has a deadline in kk.py (page_loaded.wait(timeout=30))
\* and in ooo.py (while time.time() - start_time < timeout); newww.py: while True
LoadWaitBounded(v) == v # "newww"

\* the wait of a newww.py navigate has no deadline; the model stops counting
\* its seconds one past the deadline of the others
MaxLoadWait == LoadTimeout + 1

\* navigate is entered.  kk.py: self.page_loaded.clear()
NavStart ==
    /\ navpc = "idle"
    /\ pc[Main] = "idle"
    /\ ws # "none"
    /\ navs < MaxNavs
    /\ navs' = navs + 1
    /\ navpc' = IF EnablesFirst(variant) THEN "enable" ELSE "navigate"
    /\ page_loaded' = IF variant = "kk" THEN FALSE ELSE page_loaded
    /\ navResult' = "none"
    /\ navWaited' = 0
    /\ outcome' = [outcome EXCEPT ![Main] = "none"]
    /\ UNCHANGED <<sessionVars, response_queue, event_queue, wireVars, clockVars,
                   pc, cmd_id, tmp, waited, got, errInfo, call, calls, allocLog,
                   sent, crossTalk, command_id, lock, current_url, callBudget, pageVars, omVars, runVars, launchVars, moreVars>>

\* navigate's next send_command begins (Page.enable, Page.navigate)
NavSendKK ==
    /\ navpc = "navigate"
    /\ outcome[Main] = "none"
    /\ KKRead(Main)

NavSendLocked ==
    /\ navpc \in {"enable", "navigate"}
    /\ outcome[Main] = "none"
    /\ LockedSend(Main)

\* a send_command of navigate has ended: an exception leaves navigate; the
\* result of Page.enable leads to Page.navigate; the result of Page.navigate to
\* self.current_url = url and the wait for the load event
NavAfterSend(u) ==
    /\ navpc \in {"enable", "navigate"}
    /\ pc[Main] = "idle"
    /\ outcome[Main] # "none"
    /\ IF outcome[Main] # "result"
       THEN /\ navpc' = "idle"
            /\ navResult' = "raised"
            /\ UNCHANGED <<current_url, outcome>>
       ELSE IF navpc = "enable"
       THEN /\ navpc' = "navigate"
            /\ outcome' = [outcome EXCEPT ![Main] = "none"]
            /\ UNCHANGED <<current_url, navResult>>
       ELSE /\ navpc' = "loadwait"
            /\ current_url' = u
            /\ UNCHANGED <<navResult, outcome>>
    /\ UNCHANGED <<sessionVars, queueVars, wireVars, clockVars, pc, cmd_id, tmp,
                   waited, got, errInfo, call, calls, allocLog, sent, crossTalk,
                   command_id, lock, navWaited, navs, callBudget, pageVars, omVars, runVars, launchVars, moreVars>>

\* kk.py: self.page_loaded.wait(timeout=30) returns, the event set or the
\* timeout over ("Page load timeout, continuing anyway")
NavLatch ==
    /\ variant = "kk"
    /\ navpc = "loadwait"
    /\ page_loaded \/ navWaited >= LoadTimeout
    /\ navpc' = "settle"
    /\ UNCHANGED <<sessionVars, queueVars, wireVars, clockVars, callerVars,
                   navWaited, current_url, navs, navResult, callBudget, pageVars, omVars, runVars, launchVars, moreVars>>

\* ooo.py, newww.py: event = self.event_queue.get(...) returned an event;
\* break on Page.loadEventFired, else go round again
NavGetEvent ==
    /\ variant # "kk"
    /\ navpc = "loadwait"
    /\ LoadWaitBounded(variant) => navWaited < LoadTimeout
    /\ event_queue # <<>>
    /\ event_queue' = Tail(event_queue)
    /\ navpc' = IF Head(event_queue).method = "Page.loadEventFired"
                THEN "settle" ELSE navpc
    /\ UNCHANGED <<sessionVars, response_queue, page_loaded, wireVars, clockVars,
                   callerVars, navWaited, current_url, navs, navResult, callBudget, pageVars, omVars, runVars, launchVars, moreVars>>

\* ooo.py: the while condition fails after 30 seconds
NavLoopEnd ==
    /\ variant # "kk"
    /\ LoadWaitBounded(variant)
    /\ navpc = "loadwait"
    /\ navWaited >= LoadTimeout
    /\ navpc' = "settle"
    /\ UNCHANGED <<sessionVars, queueVars, wireVars, clockVars, callerVars,
                   navWaited, current_url, navs, navResult, callBudget, pageVars, omVars, runVars, launchVars, moreVars>>

\* one second of the load wait passes with nothing for any thread to do
NavTick ==
    /\ navpc = "loadwait"
    /\ reader = "running" => (ws_in = <<>> /\ ws = "open")
    /\ variant = "kk" => ~page_loaded
    /\ variant # "kk" => event_queue = <<>>
    /\ LoadWaitBounded(variant) => navWaited < LoadTimeout
    /\ navWaited' = Min(navWaited + 1, MaxLoadWait)
    /\ UNCHANGED <<sessionVars, queueVars, wireVars, clockVars, callerVars,
                   navpc, current_url, navs, navResult, callBudget, pageVars, omVars, runVars, launchVars, moreVars>>

\* time.sleep(3) (newww.py: 2) is over and navigate returns.  ooo.py first runs
\* wait_for_youtube_elements when the url is YouTube's: three wait_for_selector
\* calls, each with its own 10 s deadline and its exception caught.
NavReturn ==
    /\ navpc = "settle"
    /\ navpc' = "idle"
    /\ navResult' = "returned"
    /\ UNCHANGED <<sessionVars, queueVars, wireVars, clockVars, callerVars,
                   navWaited, current_url, navs, callBudget, pageVars, omVars, runVars, launchVars, moreVars>>

\* navigate has written its Page.navigate command to the socket and has not
\* yet left the wait for the load event
NavSent ==
    /\ navpc \in {"navigate", "loadwait"}
    /\ navpc = "navigate" => (pc[Main] = "wait" \/ outcome[Main] # "none")
    /\ \E c \in sent : c.call = call[Main]

\* the Page.loadEventFired event of the page that command number n asked for
LoadFrame(n) == [EventFrame("Page.loadEventFired") EXCEPT !.call = n]

\* f is the load event of the page the current navigate asked for
OwnLoad(f) == f.hasMethod /\ f.method = "Page.loadEventFired" /\ f.call = call[Main]

\* the message handler has received the load event of the current navigate
OwnLoadArrived == \E i \in DOMAIN event_queue : OwnLoad(event_queue[i])

\* the page that navigate asked for has loaded: the browser writes its
\* Page.loadEventFired, before or after it answers the command
BrowserLoads ==
    /\ ws = "open"
    /\ NavSent
    /\ ~OwnLoadArrived
    /\ \A i \in DOMAIN ws_in : ~OwnLoad(ws_in[i])
    /\ ws_in' = Append(ws_in, LoadFrame(call[Main]))
    /\ UNCHANGED <<sessionVars, queueVars, wire_out, noise, callerVars, clockVars,
                   otherVars>>

(* --------------------------- specifications --------------------------- *)
\* Spec watches the callers only until one of them has waited MaxSeconds
ShortTick ==
    /\ \A t \in Waiting : waited[t] < MaxSeconds
    /\ Tick

\* Spec: any number of threads call send_command on one controller while the
\* browser answers in any order and close() may run at any moment.
Next ==
    \/ StartBrowser
    \/ Connect
    \/ \E t \in Threads : KKRead(t)
    \/ \E t \in Threads : KKLoad(t)
    \/ \E t \in Threads : KKStore(t)
    \/ \E t \in Threads : KKSend(t)
    \/ \E t \in Threads : KKGet(t)
    \/ \E t \in Threads : LockedSend(t)
    \/ \E t \in Threads : LockedGet(t)
    \/ ReaderRecv
    \/ ReaderFail
    \/ \E c \in wire_out, err \in BOOLEAN : BrowserRespond(c, err)
    \/ Close
    \/ ShortTick

Spec == Init /\ [][Next]_vars

\* SpecSession: one thread calls send_command, one call after the other, for
\* as long as it takes; the browser may stay silent, write any frame, or go.
NextSession ==
    \/ StartBrowser
    \/ Connect
    \/ KKRead(Main)
    \/ KKLoad(Main)
    \/ KKStore(Main)
    \/ KKSend(Main)
    \/ KKGet(Main)
    \/ KKTimeout(Main)
    \/ LockedSend(Main)
    \/ LockedGet(Main)
    \/ ReaderRecv
    \/ ReaderFail
    \/ \E c \in wire_out, err \in BOOLEAN : BrowserRespond(c, err)
    \/ \E f \in NoiseFrames : BrowserNoise(f)
    \/ PeerClose
    \/ Close
    \/ Tick

SpecSession == Init /\ [][NextSession]_vars

(* ------------------------------ claims --------------------------------- *)
\* the id that call number n wrote to the socket
IdOfCall(n) == (CHOOSE c \in sent : c.call = n).id

\* C1: whatever the interleaving of the callers, ids are strictly increasing in
\* the order they were allocated and no two commands written to the socket
\* carry the same id.
ClaimC1 ==
    /\ \A i, j \in 1..Len(allocLog) : i < j => allocLog[i] < allocLog[j]
    /\ \A c, d \in sent : c.id = d.id => c = d

\* C2: no caller ever takes and drops a response whose id is that of another
\* caller's command still waiting for it.
ClaimC2 == ~crossTalk

\* C3: a result that send_command returns is the result of the response to the
\* command this very call sent, never that of another command.
ClaimC3 ==
    \A t \in Threads : outcome[t] = "result" => got[t].call = call[t]

\* C4: no caller is still blocked in send_command once the deadline has passed
\* without a response, and the timeout error names the method.
ClaimC4 ==
    \A t \in Threads :
        /\ pc[t] = "wait" => waited[t] <= Timeout
        /\ outcome[t] = "timeout" => "method" \in errInfo[t]

\* C5: one second after the reader thread ended, no call that was waiting for
\* its response when it ended is still waiting or has ended in a timeout.
ClaimC5 ==
    readerDownTicks >= 1 =>
        \A t \in Threads :
            call[t] \in atReaderStop => pc[t] # "wait" /\ outcome[t] # "timeout"

\* C6: one second after close() ran with two commands outstanding, both calls
\* have failed with a connection-closed error.
ClaimC6 ==
    (Cardinality(atClose) = 2 /\ closeTicks >= 1) =>
        \A t \in Threads :
            call[t] \in atClose => pc[t] = "idle" /\ outcome[t] = "closed"

\* C8 as stated: a matching response with an error field makes send_command
\* fail with an error that names the method, the code and the message, and a
\* result is returned only for a matching response without an error field.
ClaimC8 ==
    \A t \in Threads :
        /\ outcome[t] = "error" =>
              got[t].hasError /\ {"method", "code", "message"} \subseteq errInfo[t]
        /\ outcome[t] = "result" =>
              ~got[t].hasError /\ got[t].id = IdOfCall(call[t])

\* C8 as amended: a matching response with an error field makes send_command
\* raise an exception whose text carries the error's message and does not
\* name the method; a result is returned only for a matching response without
\* an error field.
AmendedC8 ==
    \A t \in Threads :
        /\ outcome[t] = "error" =>
              /\ got[t].hasError /\ got[t].id = IdOfCall(call[t])
              /\ "message" \in errInfo[t] /\ "method" \notin errInfo[t]
        /\ outcome[t] = "result" =>
              ~got[t].hasError /\ got[t].id = IdOfCall(call[t])

\* a send_command call has ended on an error response
WitnessC8 == \E t \in Threads : outcome[t] = "error" /\ got[t].hasError

\* C27: a caller that is blocked in send_command waiting for its response does
\* not hold the lock: another caller can allocate its id and write its frame
\* meanwhile, only the allocation being serialized.
ClaimC27 == \A t \in Threads : pc[t] = "wait" => lock # t

\* SpecNav: the main thread navigates; every send_command is one that navigate
\* makes (ooo.py, newww.py: two for each navigate).
InitNav ==
    /\ variant \in Variants
    /\ InitController
    /\ InitIdle
    /\ callBudget = 2 * MaxNavs
    /\ dom = <<>>

NextNav ==
    \/ StartBrowser
    \/ Connect
    \/ NavStart
    \/ NavSendKK
    \/ NavSendLocked
    \/ \E u \in Urls : NavAfterSend(u)
    \/ NavLatch
    \/ NavGetEvent
    \/ NavLoopEnd
    \/ NavTick
    \/ NavReturn
    \/ KKLoad(Main)
    \/ KKStore(Main)
    \/ KKSend(Main)
    \/ KKGet(Main)
    \/ KKTimeout(Main)
    \/ LockedGet(Main)
    \/ ReaderRecv
    \/ ReaderFail
    \/ \E c \in wire_out, err \in BOOLEAN : BrowserRespond(c, err)
    \/ \E f \in NoiseFrames : BrowserNoise(f)
    \/ PeerClose
    \/ Tick

SpecNav == InitNav /\ [][NextNav]_vars

\* C7: navigate is never still waiting for the load event once the load timeout
\* has passed: it has gone on to the settle delay.
ClaimC7 == navpc = "loadwait" => navWaited <= LoadTimeout

\* C34: the response queue, the event queue and the load latch change only in
\* a step of the reader thread, which takes a frame off the socket: no step
\* of a caller in send_command or navigate adds, removes or discards an entry.
ClaimC34 ==
    [][queueVars' # queueVars =>
         (reader = "running" /\ ws_in # <<>> /\ ws_in' = Tail(ws_in))]_vars

\* the events the browser sends of its own accord
EventNoise == {EventFrame("Page.loadEventFired"), EventFrame("Page.frameNavigated")}

\* SpecLoad: the main thread navigates on a socket that stays up, the page
\* loading at any moment after Page.navigate was written and the browser
\* sending other events in between.
NextLoad ==
    \/ StartBrowser
    \/ Connect
    \/ NavStart
    \/ NavSendKK
    \/ NavSendLocked
    \/ \E u \in Urls : NavAfterSend(u)
    \/ NavLatch
    \/ NavGetEvent
    \/ NavLoopEnd
    \/ NavTick
    \/ NavReturn
    \/ BrowserLoads
    \/ KKLoad(Main)
    \/ KKStore(Main)
    \/ KKSend(Main)
    \/ KKGet(Main)
    \/ KKTimeout(Main)
    \/ LockedGet(Main)
    \/ ReaderRecv
    \/ \E c \in wire_out, err \in BOOLEAN : BrowserRespond(c, err)
    \/ \E f \in EventNoise : BrowserNoise(f)
    \/ Tick

SpecLoad == InitNav /\ [][NextLoad]_vars

\* C28: once the load event of the current navigate has reached the message
\* handler, be it before navigate began to wait, no second of the load wait
\* passes: the wait ends on the event, not on the timeout.
ClaimC28 ==
    [][(navpc = "loadwait" /\ OwnLoadArrived) => navWaited' = navWaited]_vars

\* the send_command of Page.navigate has returned, navigate has not begun to
\* wait, and the load event of this navigation has already been received
WitnessC28 ==
    /\ navpc = "navigate"
    /\ outcome[Main] = "result"
    /\ OwnLoadArrived

\* the load wait ends before its timeout
EndsOnLoad == navpc = "loadwait" /\ navpc' = "settle" /\ navWaited < LoadTimeout

\* C29: when the load wait of navigate ends before the timeout, it ends on the
\* load event of this navigation, never on one left over from an earlier load.
ClaimC29 ==
    [][EndsOnLoad => IF variant = "kk"
                     THEN OwnLoadArrived
                     ELSE OwnLoad(Head(event_queue))]_vars


(* ------------------------- evaluating scripts -------------------------- *)
\* ooo.py / newww.py execute_script:
\*     if 'result' in result:
\*         if 'value' in result['result']: return result['result']['value']
\*         elif 'description' in result['result']: return result['result']['description']
\*     return None
\* kk.py execute_js: return result.get("result", {}).get("value")
\* Neither looks at exceptionDetails.
ValueOfResult(v, r) ==
    IF v = "kk"
    THEN IF r.hasResult /\ r.hasValue THEN r.value ELSE "None"
    ELSE IF r.hasResult /\ r.hasValue THEN r.value
         ELSE IF r.hasResult /\ r.hasDescription THEN "Desc"
         ELSE "None"

\* a script evaluation from the send_command to the return: an exception of
\* send_command goes through to the caller
execute_script(v, o) ==
    IF o.ok THEN Returned(ValueOfResult(v, o.res)) ELSE Raised("Exception")

\* the bookkeeping of one evaluation
Evaluated(o) ==
    /\ evalOut' = o
    /\ evalRet' = execute_script(variant, o)

\* a direct call of execute_script / execute_js by the command runner
Evaluate(o) ==
    /\ typepc = "idle"
    /\ ws = "open"
    /\ ops < MaxOps
    /\ ops' = ops + 1
    /\ Evaluated(o)
    /\ UNCHANGED <<sessionVars, queueVars, wireVars, callerVars, clockVars,
                   navVars, callBudget, omVars, runVars, launchVars, moreVars, waitVars, clickVars, field, typepc, typeResult, polls, altIdx>>

\* navigate(u) seen from the page operations (SpecNav follows its steps):
\* self.current_url = url
Navigated(u) ==
    /\ typepc = "idle"
    /\ ws = "open"
    /\ current_url # u
    /\ current_url' = u
    /\ UNCHANGED <<sessionVars, queueVars, wireVars, callerVars, clockVars,
                   navpc, navWaited, navs, navResult, callBudget, pageVars, omVars, runVars, launchVars, moreVars>>

(* -------------------------------- type --------------------------------- *)
HasType(v) == v \in {"ooo", "newww"}

\* the site-specific selectors of the fallback: alt_selectors (newww.py),
\* youtube_selectors (ooo.py)
AltSelectors(v) == IF v = "newww" THEN 1..2 ELSE 1..4

\* `"youtube.com" in self.current_url'
OnYoutube(u) == u = "https://www.youtube.com/"

\* what the page can make of a script that writes the input's value
Fields == {"Text", "Other", "Empty"}

\* answers the browser can give to `return document.querySelector(sel).value':
\* a plain value is the value of the field
ValueAnswers(f) ==
    {o \in SendOutcomes :
        /\ (o.ok /\ o.res.hasValue /\ ~o.res.hasException) => o.res.value = f
        /\ (o.ok /\ o.res.hasValue /\ o.res.hasException) => o.res.value # "Text"}

\* type ends
TypeEnds(r) ==
    /\ typepc' = "idle"
    /\ typeResult' = r
    /\ polls' = 0
    /\ altIdx' = 0

\* type is entered: try: self.wait_for_selector(selector)
TypeStart ==
    /\ typepc = "idle"
    /\ HasType(variant)
    /\ ws = "open"
    /\ ops < MaxOps
    /\ ops' = ops + 1
    /\ typepc' = "wait"
    /\ typeResult' = "none"
    /\ polls' = 0
    /\ altIdx' = 0
    /\ waitResult' = "none"
    /\ foundOn' = NoOutcome
    /\ resolved' = FALSE
    /\ UNCHANGED <<sessionVars, queueVars, wireVars, callerVars, clockVars,
                   navVars, callBudget, omVars, runVars, launchVars, moreVars, clickVars, evalOut, evalRet, field>>

\* wait_for_selector: `if result: return True'
CountsAsFound(x) == Truthy(x)

\* one round of wait_for_selector: result = self.execute_script(...);
\* if result: return True; time.sleep(0.5); and, the deadline passed,
\* raise Exception("No visible element found ...").  found / failed are the
\* places type goes on from.
WaitRound(o, found, failed) ==
    /\ Evaluated(o)
    /\ LET r == execute_script(variant, o) IN
        /\ IF r.kind = "raise" THEN typepc' = failed /\ polls' = 0
           ELSE IF CountsAsFound(r.val) THEN typepc' = found /\ polls' = 0
           ELSE IF polls + 1 < MaxPolls THEN typepc' = typepc /\ polls' = polls + 1
           ELSE typepc' = failed /\ polls' = 0
        /\ waitResult' = IF r.kind = "raise" THEN "raised"
                         ELSE IF CountsAsFound(r.val) THEN "found"
                         ELSE IF polls + 1 < MaxPolls THEN "none"
                         ELSE "timeout"
        /\ foundOn' = IF r.kind = "return" /\ CountsAsFound(r.val) THEN o ELSE NoOutcome
        /\ resolved' = (resolved \/ (r.kind = "return" /\ CountsAsFound(r.val)))

\* self.wait_for_selector(selector) of the primary path
TypeWait(o) ==
    /\ typepc = "wait"
    /\ WaitRound(o, IF variant = "newww" THEN "script" ELSE "focus", "except")
    /\ UNCHANGED <<sessionVars, queueVars, wireVars, callerVars, clockVars,
                   navVars, callBudget, omVars, runVars, launchVars, moreVars, clickVars, field, typeResult, altIdx, ops>>


\* newww.py: result = self.execute_script(script);
\* if not result: raise Exception("No visible element to type into ...")
TypeScript(o, f) ==
    /\ typepc = "script"
    /\ Evaluated(o)
    /\ field' = f
    /\ LET r == execute_script(variant, o) IN
        typepc' = IF r.kind = "return" /\ Truthy(r.val) THEN "verify" ELSE "except"
    /\ UNCHANGED <<sessionVars, queueVars, wireVars, callerVars, clockVars,
                   navVars, callBudget, omVars, runVars, launchVars, moreVars, waitVars, clickVars, typeResult, polls, altIdx, ops>>

\* newww.py: entered_text = self.execute_script('return document.querySelector(...).value');
\* if entered_text != text: raise Exception("Typed text ... not found ..."); return True
TypeVerify(o) ==
    /\ typepc = "verify"
    /\ o \in ValueAnswers(field)
    /\ Evaluated(o)
    /\ LET r == execute_script(variant, o) IN
        IF r.kind = "return" /\ r.val = "Text"
        THEN TypeEnds("returned")
        ELSE typepc' = "except" /\ UNCHANGED <<typeResult, polls, altIdx>>
    /\ UNCHANGED <<sessionVars, queueVars, wireVars, callerVars, clockVars,
                   navVars, callBudget, omVars, runVars, launchVars, moreVars, waitVars, clickVars, field, ops>>

\* ooo.py: the focus script; its result is not looked at
TypeFocus(o) ==
    /\ typepc = "focus"
    /\ Evaluated(o)
    /\ typepc' = IF o.ok THEN "clear" ELSE "except"
    /\ UNCHANGED <<sessionVars, queueVars, wireVars, callerVars, clockVars,
                   navVars, callBudget, omVars, runVars, launchVars, moreVars, waitVars, clickVars, field, typeResult, polls, altIdx, ops>>

\* ooo.py: the script that clears the field (element.value = "")
TypeClear(o, f) ==
    /\ typepc = "clear"
    /\ f \in {"Empty", field}
    /\ Evaluated(o)
    /\ field' = f
    /\ typepc' = IF o.ok THEN "chars" ELSE "except"
    /\ UNCHANGED <<sessionVars, queueVars, wireVars, callerVars, clockVars,
                   navVars, callBudget, omVars, runVars, launchVars, moreVars, waitVars, clickVars, typeResult, polls, altIdx, ops>>

\* ooo.py: for char in text: self.execute_script(... element.value += char ...),
\* the whole loop; o is the evaluation that raised, or the last one
TypeChars(o, f) ==
    /\ typepc = "chars"
    /\ Evaluated(o)
    /\ field' = f
    /\ typepc' = IF o.ok THEN "final" ELSE "except"
    /\ UNCHANGED <<sessionVars, queueVars, wireVars, callerVars, clockVars,
                   navVars, callBudget, omVars, runVars, launchVars, moreVars, waitVars, clickVars, typeResult, polls, altIdx, ops>>

\* ooo.py: the final input and change events; then type falls off its end
TypeFinal(o) ==
    /\ typepc = "final"
    /\ Evaluated(o)
    /\ IF o.ok THEN TypeEnds("returned")
       ELSE typepc' = "except" /\ UNCHANGED <<typeResult, polls, altIdx>>
    /\ UNCHANGED <<sessionVars, queueVars, wireVars, callerVars, clockVars,
                   navVars, callBudget, omVars, runVars, launchVars, moreVars, waitVars, clickVars, field, ops>>

\* type leaves the handler without a fallback having worked: newww.py ends
\* on `raise', ooo.py has nothing after the handler
TypeGivesUp(v) == TypeEnds(IF v = "newww" THEN "raised" ELSE "returned")

\* except Exception as e: logger.error(...); if "youtube.com" in self.current_url:
\* (a TypeError when current_url is still None)
TypeExcept ==
    /\ typepc = "except"
    /\ IF current_url = "none" THEN TypeEnds("raised")
       ELSE IF OnYoutube(current_url)
            THEN typepc' = "altwait" /\ altIdx' = 1 /\ polls' = 0
                 /\ UNCHANGED typeResult
            ELSE TypeGivesUp(variant)
    /\ UNCHANGED <<sessionVars, queueVars, wireVars, callerVars, clockVars,
                   navVars, callBudget, omVars, runVars, launchVars, moreVars, waitVars, clickVars, evalOut, evalRet, field, ops>>

\* fallback: self.wait_for_selector(alt_selector)
TypeAltWait(o) ==
    /\ typepc = "altwait"
    /\ WaitRound(o, "altscript", "altnext")
    /\ UNCHANGED <<sessionVars, queueVars, wireVars, callerVars, clockVars,
                   navVars, callBudget, omVars, runVars, launchVars, moreVars, clickVars, field, typeResult, altIdx, ops>>

\* fallback: self.execute_script(... el.value = text ...); return True (newww.py),
\* return (ooo.py).  The value is not read back.
TypeAltScript(o, f) ==
    /\ typepc = "altscript"
    /\ Evaluated(o)
    /\ IF o.ok THEN field' = f /\ TypeEnds("returned")
       ELSE typepc' = "altnext" /\ UNCHANGED <<field, typeResult, polls, altIdx>>
    /\ UNCHANGED <<sessionVars, queueVars, wireVars, callerVars, clockVars,
                   navVars, callBudget, omVars, runVars, launchVars, moreVars, waitVars, clickVars, ops>>

\* fallback: except Exception: continue, and the end of the for loop
TypeAltNext ==
    /\ typepc = "altnext"
    /\ IF altIdx + 1 \in AltSelectors(variant)
       THEN typepc' = "altwait" /\ altIdx' = altIdx + 1 /\ polls' = 0
            /\ UNCHANGED typeResult
       ELSE TypeGivesUp(variant)
    /\ UNCHANGED <<sessionVars, queueVars, wireVars, callerVars, clockVars,
                   navVars, callBudget, omVars, runVars, launchVars, moreVars, waitVars, clickVars, evalOut, evalRet, field, ops>>

(* ------------------------------ ooo.py click --------------------------- *)
\* the words handle_youtube_specific_click looks for in the selector
SelectorKinds == {"search", "video", "play", "other"}

\* youtube_search_selectors, youtube_video_selectors, youtube_play_selectors
YoutubeSelectors(k) ==
    IF k \in {"search", "video"} THEN 1..4 ELSE IF k = "play" THEN 1..3 ELSE {}

\* click ends
ClickEnds(r) ==
    /\ typepc' = "idle"
    /\ clickResult' = r
    /\ polls' = 0
    /\ altIdx' = 0

\* click is entered: try: self.wait_for_selector(selector)
ClickStart(k) ==
    /\ typepc = "idle"
    /\ variant = "ooo"
    /\ ws = "open"
    /\ ops < MaxOps
    /\ ops' = ops + 1
    /\ typepc' = "cwait"
    /\ clickResult' = "none"
    /\ clickKind' = k
    /\ polls' = 0
    /\ altIdx' = 0
    /\ waitResult' = "none"
    /\ foundOn' = NoOutcome
    /\ resolved' = FALSE
    /\ UNCHANGED <<sessionVars, queueVars, wireVars, callerVars, clockVars,
                   navVars, callBudget, omVars, runVars, launchVars, moreVars, evalOut, evalRet, field, typeResult>>

\* self.wait_for_selector(selector) of the primary path
ClickWait(o) ==
    /\ typepc = "cwait"
    /\ WaitRound(o, "cscroll", "cexcept")
    /\ UNCHANGED <<sessionVars, queueVars, wireVars, callerVars, clockVars,
                   navVars, callBudget, omVars, runVars, launchVars, moreVars, clickVars, field, typeResult,
                   altIdx, ops>>

\* the script that scrolls the element into view; its result is not looked at
ClickScroll(o) ==
    /\ typepc = "cscroll"
    /\ Evaluated(o)
    /\ typepc' = IF o.ok THEN "cclick" ELSE "cexcept"
    /\ UNCHANGED <<sessionVars, queueVars, wireVars, callerVars, clockVars,
                   navVars, callBudget, omVars, runVars, launchVars, moreVars, waitVars, clickVars, field,
                   typeResult, polls, altIdx, ops>>

\* result = self.execute_script(<dispatch the mouse events>); `if not result:'
\* leads to the protocol-level click; otherwise time.sleep(2) and click is over
ClickScript(o) ==
    /\ typepc = "cclick"
    /\ Evaluated(o)
    /\ LET r == execute_script(variant, o) IN
        IF r.kind = "raise"
        THEN typepc' = "cexcept" /\ UNCHANGED <<clickResult, polls, altIdx>>
        ELSE IF Truthy(r.val) THEN ClickEnds("returned")
        ELSE typepc' = "cdp" /\ UNCHANGED <<clickResult, polls, altIdx>>
    /\ UNCHANGED <<sessionVars, queueVars, wireVars, callerVars, clockVars,
                   navVars, callBudget, omVars, runVars, launchVars, moreVars, waitVars, clickKind, field,
                   typeResult, ops>>

\* DOM.querySelectorAll, DOM.getBoxModel, Input.dispatchMouseEvent twice.
\* clicked: all of them answered; otherwise a send_command raised, or
\* raise Exception("No elements found ...") / ("Could not get element position ...")
ClickByProtocol(clicked) ==
    /\ typepc = "cdp"
    /\ IF clicked THEN ClickEnds("returned")
       ELSE typepc' = "cexcept" /\ UNCHANGED <<clickResult, polls, altIdx>>
    /\ UNCHANGED <<sessionVars, queueVars, wireVars, callerVars, clockVars,
                   navVars, callBudget, omVars, runVars, launchVars, moreVars, waitVars, clickKind, evalOut,
                   evalRet, field, typeResult, ops>>

\* except Exception as e: logger.error(...); if "youtube.com" in self.current_url:
\* self.handle_youtube_specific_click(selector) -- and click falls off its end
ClickExcept ==
    /\ typepc = "cexcept"
    /\ IF current_url = "none" THEN ClickEnds("raised")
       ELSE IF OnYoutube(current_url) /\ YoutubeSelectors(clickKind) # {}
            THEN typepc' = "caltwait" /\ altIdx' = 1 /\ polls' = 0
                 /\ UNCHANGED clickResult
            ELSE ClickEnds("returned")
    /\ UNCHANGED <<sessionVars, queueVars, wireVars, callerVars, clockVars,
                   navVars, callBudget, omVars, runVars, launchVars, moreVars, waitVars, clickKind, evalOut,
                   evalRet, field, typeResult, ops>>

\* handle_youtube_specific_click: self.wait_for_selector(selector, timeout=5)
ClickAltWait(o) ==
    /\ typepc = "caltwait"
    /\ WaitRound(o, "caltscript", "caltnext")
    /\ UNCHANGED <<sessionVars, queueVars, wireVars, callerVars, clockVars,
                   navVars, callBudget, omVars, runVars, launchVars, moreVars, clickVars, field, typeResult,
                   altIdx, ops>>

\* handle_youtube_specific_click: self.execute_script(... el.click() ...); return
ClickAltScript(o) ==
    /\ typepc = "caltscript"
    /\ Evaluated(o)
    /\ IF o.ok THEN ClickEnds("returned")
       ELSE typepc' = "caltnext" /\ UNCHANGED <<clickResult, polls, altIdx>>
    /\ UNCHANGED <<sessionVars, queueVars, wireVars, callerVars, clockVars,
                   navVars, callBudget, omVars, runVars, launchVars, moreVars, waitVars, clickKind, field,
                   typeResult, ops>>

\* handle_youtube_specific_click: except Exception: continue, and the end of
\* the for loop, after which the helper and click return
ClickAltNext ==
    /\ typepc = "caltnext"
    /\ IF altIdx + 1 \in YoutubeSelectors(clickKind)
       THEN typepc' = "caltwait" /\ altIdx' = altIdx + 1 /\ polls' = 0
            /\ UNCHANGED clickResult
       ELSE ClickEnds("returned")
    /\ UNCHANGED <<sessionVars, queueVars, wireVars, callerVars, clockVars,
                   navVars, callBudget, omVars, runVars, launchVars, moreVars, waitVars, clickKind, evalOut,
                   evalRet, field, typeResult, ops>>

(* --------------------------- ooo.py press_enter ------------------------ *)
\* the stages of click and press_enter in which the protocol-level input
\* events (Input.dispatchMouseEvent, Input.dispatchKeyEvent) are sent
ProtocolStages == {"cdp", "pcdp"}

\* press_enter ends
PressEnds(r) ==
    /\ typepc' = "idle"
    /\ pressResult' = r

\* press_enter is entered: try: self.execute_script(<focus the element>)
PressStart ==
    /\ typepc = "idle"
    /\ variant = "ooo"
    /\ ws = "open"
    /\ ops < MaxOps
    /\ ops' = ops + 1
    /\ typepc' = "pfocus"
    /\ pressResult' = "none"
    /\ UNCHANGED <<sessionVars, queueVars, wireVars, callerVars, clockVars,
                   navVars, callBudget, omVars, runVars, launchVars, connVars,
                   autoVars, waitVars, clickVars, field, typeResult, evalOut, evalRet, polls, altIdx>>

\* the script that focuses the element; its result is not looked at
PressFocus(o) ==
    /\ typepc = "pfocus"
    /\ Evaluated(o)
    /\ typepc' = IF o.ok THEN "pscript" ELSE "pexcept"
    /\ UNCHANGED <<sessionVars, queueVars, wireVars, callerVars, clockVars,
                   navVars, callBudget, omVars, runVars, launchVars, connVars,
                   autoVars, waitVars, clickVars, field, typeResult, pressResult, polls, altIdx, ops>>

\* result = self.execute_script(<dispatch the keyboard events, submit the form>);
\* `if not result:' leads to the protocol-level key press; otherwise
\* time.sleep(2) and press_enter is over
PressScript(o) ==
    /\ typepc = "pscript"
    /\ Evaluated(o)
    /\ LET r == execute_script(variant, o) IN
        IF r.kind = "raise"
        THEN typepc' = "pexcept" /\ UNCHANGED pressResult
        ELSE IF Truthy(r.val) THEN PressEnds("returned")
        ELSE typepc' = "pcdp" /\ UNCHANGED pressResult
    /\ UNCHANGED <<sessionVars, queueVars, wireVars, callerVars, clockVars,
                   navVars, callBudget, omVars, runVars, launchVars, connVars,
                   autoVars, waitVars, clickVars, field, typeResult, polls, altIdx, ops>>

\* Input.dispatchKeyEvent keyDown, then keyUp.  pressed: both were answered;
\* otherwise a send_command raised
PressByProtocol(pressed) ==
    /\ typepc = "pcdp"
    /\ IF pressed THEN PressEnds("returned")
       ELSE typepc' = "pexcept" /\ UNCHANGED pressResult
    /\ UNCHANGED <<sessionVars, queueVars, wireVars, callerVars, clockVars,
                   navVars, callBudget, omVars, runVars, launchVars, connVars,
                   autoVars, waitVars, clickVars, field, typeResult, evalOut, evalRet, polls, altIdx, ops>>

\* except Exception as e: logger.error(...); if "youtube.com" in self.current_url:
\* (a TypeError when current_url is still None); elsewhere press_enter falls
\* off its end
PressExcept ==
    /\ typepc = "pexcept"
    /\ IF current_url = "none" THEN PressEnds("raised")
       ELSE IF OnYoutube(current_url)
            THEN typepc' = "palt" /\ UNCHANGED pressResult
            ELSE PressEnds("returned")
    /\ UNCHANGED <<sessionVars, queueVars, wireVars, callerVars, clockVars,
                   navVars, callBudget, omVars, runVars, launchVars, connVars,
                   autoVars, waitVars, clickVars, field, typeResult, evalOut, evalRet, polls, altIdx, ops>>

\* try: self.execute_script(<click the search button, submit the search form>)
\* except Exception as e2: logger.error(...)
PressAlt(o) ==
    /\ typepc = "palt"
    /\ Evaluated(o)
    /\ PressEnds("returned")
    /\ UNCHANGED <<sessionVars, queueVars, wireVars, callerVars, clockVars,
                   navVars, callBudget, omVars, runVars, launchVars, connVars,
                   autoVars, waitVars, clickVars, field, typeResult, polls, altIdx, ops>>

\* SpecPage: the main thread evaluates scripts and types on a connected session.
NextPage ==
    \/ StartBrowser
    \/ Connect
    \/ \E u \in Urls : Navigated(u)
    \/ \E o \in SendOutcomes : Evaluate(o)
    \/ TypeStart
    \/ \E o \in SendOutcomes : TypeWait(o)
    \/ \E o \in SendOutcomes, f \in Fields : TypeScript(o, f)
    \/ \E o \in SendOutcomes : TypeVerify(o)
    \/ \E o \in SendOutcomes : TypeFocus(o)
    \/ \E o \in SendOutcomes, f \in Fields : TypeClear(o, f)
    \/ \E o \in SendOutcomes, f \in Fields : TypeChars(o, f)
    \/ \E o \in SendOutcomes : TypeFinal(o)
    \/ TypeExcept
    \/ \E o \in SendOutcomes : TypeAltWait(o)
    \/ \E o \in SendOutcomes, f \in Fields : TypeAltScript(o, f)
    \/ TypeAltNext
    \/ \E k \in SelectorKinds : ClickStart(k)
    \/ \E o \in SendOutcomes : ClickWait(o)
    \/ \E o \in SendOutcomes : ClickScroll(o)
    \/ \E o \in SendOutcomes : ClickScript(o)
    \/ \E clicked \in BOOLEAN : ClickByProtocol(clicked)
    \/ ClickExcept
    \/ \E o \in SendOutcomes : ClickAltWait(o)
    \/ \E o \in SendOutcomes : ClickAltScript(o)
    \/ ClickAltNext
    \/ PressStart
    \/ \E o \in SendOutcomes : PressFocus(o)
    \/ \E o \in SendOutcomes : PressScript(o)
    \/ \E pressed \in BOOLEAN : PressByProtocol(pressed)
    \/ PressExcept
    \/ \E o \in SendOutcomes : PressAlt(o)

SpecPage == Init /\ [][NextPage]_vars

\* C9: an evaluation for which the browser reported a thrown exception ends in
\* a ScriptError being raised, and never in a truthy value handed to the caller.
ClaimC9 ==
    (evalOut.ok /\ evalOut.res.hasException) =>
        evalRet.kind = "raise" /\ evalRet.val = "ScriptError"

\* C10: type ends with success only when the field holds the text asked for.
ClaimC10 == typeResult = "returned" => field = "Text"

\* C32: an evaluation whose send_command returned, the browser reporting no
\* exception, returns the literal value of the response when it has one,
\* otherwise its description when it has one, otherwise None; it does not raise.
ClaimC32 ==
    (evalOut.ok /\ ~evalOut.res.hasException) =>
        evalRet = Returned(IF evalOut.res.hasResult /\ evalOut.res.hasValue
                             THEN evalOut.res.value
                           ELSE IF evalOut.res.hasResult /\ evalOut.res.hasDescription
                             THEN "Desc"
                           ELSE "None")

\* the step of click, type or press_enter in which the script that does the
\* work has returned a falsy result: the script-level attempt reports failure
ScriptReportsFailure ==
    /\ variant = "ooo"
    /\ typepc \in {"cclick", "chars", "pscript"}
    /\ typepc' # typepc
    /\ evalRet'.kind = "return"
    /\ ~Truthy(evalRet'.val)

\* C35: in click, type and press_enter a script-level attempt that reports
\* failure is followed by the protocol-level fallback (mouse or key events),
\* and the protocol-level fallback is entered only after such a failure.
ClaimC35 ==
    [][/\ ScriptReportsFailure => typepc' \in ProtocolStages
       /\ (typepc' \in ProtocolStages /\ typepc' # typepc) => ScriptReportsFailure]_vars

\* C37: in ooo.py none of click, type and press_enter lets an exception out.
ClaimC37 ==
    variant = "ooo" =>
        /\ clickResult # "raised"
        /\ typeResult # "raised"
        /\ pressResult # "raised"


(* ------------------ om.py: finding the element of a step ---------------- *)
\* the page om.py works on: the children of <body>, each with its tag, whether
\* it is displayed (offsetParent !== null, is_displayed()) and its id (0: none)
Tags == {"input", "button", "div"}
PageIds == {0, 1}
Elements == [tag : Tags, visible : BOOLEAN, id : PageIds]
Doms == UNION {[1..n -> Elements] : n \in 0..MaxChildren}

\* params['selector'].split(','): the candidates a step can come with, '#1'
\* (an id the page may use) and '#2' (an id no page uses)
SuppliedIds == {1, 2}
SelectorLists ==
    UNION {[1..n -> {IdSelector(i) : i \in SuppliedIds}] : n \in 1..MaxSelectors}

MinOf(S) == CHOOSE x \in S : \A y \in S : x <= y

\* the elements of d a selector matches
MatchesOf(d, sel) ==
    {i \in DOMAIN d :
        \/ sel.kind = "id" /\ d[i].id = sel.id
        \/ sel.kind = "nth" /\ i = sel.n /\ d[i].tag = sel.tag}

\* WebDriverWait(driver, 5).until(EC.visibility_of_element_located((By.CSS_SELECTOR, sel)))
\* / EC.element_to_be_clickable: the first match in document order if it is
\* displayed; 0 stands for the TimeoutException
Located(d, sel) ==
    IF MatchesOf(d, sel) = {} THEN 0
    ELSE IF d[MinOf(MatchesOf(d, sel))].visible THEN MinOf(MatchesOf(d, sel))
    ELSE 0

\* get_dynamic_selector, js_base:
\*   if (element.id) return '#' + element.id; ...
\*   if (sibling === element) return getSelector(parent) + ' > ' + tag + ':nth-child(' + (ix + 1) + ')';
\*   if (sibling.nodeType === 1 && sibling.tagName === element.tagName) ix++;
\* ix counts the earlier siblings of the same tag
getSelector(d, i) ==
    IF d[i].id # 0 THEN IdSelector(d[i].id)
    ELSE NthChildSelector(d[i].tag,
            Cardinality({j \in 1..(i - 1) : d[j].tag = d[i].tag}) + 1)

\* the tags the heuristic scans: 'input, textarea' for type,
\* 'button, a, [role="button"]' for click
RoleTag(a) == IF a = "type" THEN "input" ELSE "button"

\* the displayed elements of the role, in document order
RoleCandidates(d, a) == {i \in DOMAIN d : d[i].tag = RoleTag(a) /\ d[i].visible}

\* get_dynamic_selector(driver, action, params): the first displayed element of
\* the role (with or without a text match: both branches return it), or null
get_dynamic_selector(d, a) ==
    IF RoleCandidates(d, a) = {} THEN NoSelector
    ELSE getSelector(d, MinOf(RoleCandidates(d, a)))

\* an entry of the lookup history
Lookup(t, i, h, r) == [tier |-> t, idx |-> i, hit |-> h, raised |-> r]

\* a step with action 'type' or 'click' begins:
\* selectors = [s.strip() for s in params['selector'].split(',')]; element = None
OmStart(a, sels) ==
    /\ ompc = "idle"
    /\ omAction' = a
    /\ selectors' = sels
    /\ ompc' = "candidates"
    /\ omIdx' = 1
    /\ element' = 0
    /\ dynamic_selector' = NoSelector
    /\ omResult' = "none"
    /\ tried' = <<>>
    /\ UNCHANGED <<sessionVars, queueVars, wireVars, callerVars, clockVars,
                   navVars, callBudget, pageVars, runVars, launchVars, moreVars, dom>>

\* for selector in selectors: try: element = WebDriverWait(...).until(...); break
\* except TimeoutException: continue -- and `if not element:' after the loop
AfterTryNoBreak(hit, i, n) ==
    IF i < n THEN "candidates" ELSE IF hit THEN "act" ELSE "dynamic"
AfterTry(hit, i, n) ==
    IF hit THEN "act" ELSE IF i < n THEN "candidates" ELSE "dynamic"

\* one round of the loop over the supplied selectors
OmTry ==
    /\ ompc = "candidates"
    /\ LET e == Located(dom, selectors[omIdx])
           next == AfterTry(e # 0, omIdx, Len(selectors)) IN
        /\ element' = e
        /\ tried' = Append(tried, Lookup("selector", omIdx, e # 0, FALSE))
        /\ ompc' = next
        /\ omIdx' = IF next = "candidates" THEN omIdx + 1 ELSE omIdx
    /\ UNCHANGED <<sessionVars, queueVars, wireVars, callerVars, clockVars,
                   navVars, callBudget, pageVars, runVars, launchVars, moreVars, dom, omAction, selectors,
                   dynamic_selector, omResult>>

\* the step ends in its except branch: step_result["status"] = "error"
OmFails ==
    /\ ompc' = "idle"
    /\ omResult' = "error"

\* dynamic_selector = get_dynamic_selector(driver, action, params);
\* if dynamic_selector: ... else: raise Exception("No input element found").
\* jsOk: driver.execute_script did not raise (else: return None)
OmDynamic(jsOk) ==
    /\ ompc = "dynamic"
    /\ LET ds == IF jsOk THEN get_dynamic_selector(dom, omAction) ELSE NoSelector IN
        /\ dynamic_selector' = ds
        /\ tried' = Append(tried, Lookup("heuristic", 0, ds # NoSelector, ~jsOk))
        /\ IF ds # NoSelector
           THEN ompc' = "locate" /\ UNCHANGED omResult
           ELSE OmFails
    /\ UNCHANGED <<sessionVars, queueVars, wireVars, callerVars, clockVars,
                   navVars, callBudget, pageVars, runVars, launchVars, moreVars, dom, omAction, selectors,
                   omIdx, element>>

\* element = WebDriverWait(driver, 5).until(...(By.CSS_SELECTOR, dynamic_selector));
\* its TimeoutException is not caught in the branch
OmLocate ==
    /\ ompc = "locate"
    /\ LET e == Located(dom, dynamic_selector) IN
        /\ element' = e
        /\ tried' = Append(tried, Lookup("dynamic", 0, e # 0, FALSE))
        /\ IF e # 0 THEN ompc' = "act" /\ UNCHANGED omResult ELSE OmFails
    /\ UNCHANGED <<sessionVars, queueVars, wireVars, callerVars, clockVars,
                   navVars, callBudget, pageVars, runVars, launchVars, moreVars, dom, omAction, selectors,
                   omIdx, dynamic_selector>>

\* element.click() / element.clear(); element.send_keys(text); then
\* results["steps_results"].append(step_result).  ok: the driver did not raise
OmAct(ok) ==
    /\ ompc = "act"
    /\ ompc' = "idle"
    /\ omResult' = IF ok THEN "success" ELSE "error"
    /\ UNCHANGED <<sessionVars, queueVars, wireVars, callerVars, clockVars,
                   navVars, callBudget, pageVars, runVars, launchVars, moreVars, dom, omAction, selectors,
                   omIdx, element, dynamic_selector, tried>>

\* SpecOm: om.py executes type and click steps on a page.
InitOm ==
    /\ variant = "om"
    /\ InitController
    /\ InitIdle
    /\ callBudget = 0
    /\ dom \in Doms

NextOm ==
    \/ \E a \in {"type", "click"}, sels \in SelectorLists : OmStart(a, sels)
    \/ OmTry
    \/ \E jsOk \in BOOLEAN : OmDynamic(jsOk)
    \/ OmLocate
    \/ \E ok \in BOOLEAN : OmAct(ok)

SpecOm == InitOm /\ [][NextOm]_vars


\* C11: a step whose supplied selectors all find no displayed element, on a page
\* with a displayed element of the action's role, ends with that element found
\* by the heuristic (no lookup of the step having raised).
ClaimC11 ==
    (/\ ompc = "idle"
     /\ omResult # "none"
     /\ \A i \in DOMAIN selectors : Located(dom, selectors[i]) = 0
     /\ RoleCandidates(dom, omAction) # {}
     /\ \A k \in DOMAIN tried : ~tried[k].raised)
        => element = MinOf(RoleCandidates(dom, omAction))

ClaimC13 ==
    /\ (typepc = "idle" /\ typeResult = "returned") => resolved
    /\ (typepc = "idle" /\ clickResult = "returned") => resolved

\* C14: wait_for_selector returns True only on a poll whose evaluation gave the
\* boolean true, without an exception reported by the browser.
ClaimC14 == waitResult = "found" => foundOn = [ok |-> TRUE, res |-> ValueResult("True")]


(* ----------------------- kk.py: execute_command ------------------------ *)
\* "action": "navigate|click|type|press_enter|wait|complete"
Actions == {"navigate", "click", "type", "press_enter", "wait", "complete"}

\* the keys a planner answer can lack: "full" has them all
Shapes == {"full", "noCompleted", "noDescription", "noRemaining"}

\* what json.loads(cleaned) can give for planner call n
PlannerSteps(n) ==
    {[n |-> n, completed |-> c, action |-> a, shape |-> sh] :
        c \in BOOLEAN, a \in Actions, sh \in Shapes}
        \ {st \in [n : {n}, completed : {TRUE}, action : Actions, shape : Shapes] :
              st.shape = "noCompleted"}

\* the actions the attempt loop has a branch for
HasPrimitive(a) == a \in {"navigate", "click", "type", "press_enter", "wait"}

\* how one attempt can go: the primitive returns True, returns False, or raises.
\* navigate, press_enter and the wait never give False; an action without a
\* branch leaves success as it is (False)
AttemptOutcomes(a) ==
    IF a \in {"click", "type"} THEN {"true", "false", "raise"}
    ELSE IF HasPrimitive(a) THEN {"true", "raise"}
    ELSE {"false"}

\* execute_command returns False: through `if not controller.connect()' or the
\* outer except
RunAborts(cause) ==
    /\ runpc' = "done"
    /\ runStatus' = "error"
    /\ abortCause' = cause

\* handle_command: success = execute_command(command)
RunStart ==
    /\ runpc = "idle"
    /\ variant = "kk"
    /\ runpc' = "launch"
    /\ UNCHANGED <<sessionVars, queueVars, wireVars, callerVars, clockVars,
                   navVars, callBudget, pageVars, omVars, launchVars, moreVars, step, previous_steps,
                   current_command, success, runStatus, planCalls, attemptsMade,
                   anyFailed, planFailed, primAfterPlanFail, abortCause,
                   planInput, stepsLeft>>

\* controller.start_browser(); if not controller.connect(): return False;
\* current_command = command; previous_steps = []
RunLaunch(ok) ==
    /\ runpc = "launch"
    /\ variant = "kk"
    /\ IF ok THEN runpc' = "snapshot" /\ UNCHANGED <<runStatus, abortCause>>
       ELSE RunAborts("launch")
    /\ UNCHANGED <<sessionVars, queueVars, wireVars, callerVars, clockVars,
                   navVars, callBudget, pageVars, omVars, launchVars, moreVars, step, previous_steps,
                   current_command, success, planCalls, attemptsMade,
                   anyFailed, planFailed, primAfterPlanFail, planInput, stepsLeft>>

\* current_html = controller.get_clean_html() or "": the send_command in it
\* can raise, and nothing but the outer except catches that
RunSnapshot(ok) ==
    /\ runpc = "snapshot"
    /\ IF ok THEN runpc' = "plan" /\ UNCHANGED <<runStatus, abortCause>>
       ELSE RunAborts("snapshot")
    /\ UNCHANGED <<sessionVars, queueVars, wireVars, callerVars, clockVars,
                   navVars, callBudget, pageVars, omVars, launchVars, moreVars, step, previous_steps,
                   current_command, success, planCalls, attemptsMade,
                   anyFailed, planFailed, primAfterPlanFail, planInput, stepsLeft>>

\* `if step['completed']: break'
StopsOnNothing(st) == FALSE
StopsOn(st) == st.completed

\* the planner call
PlanCalled ==
    /\ planCalls < MaxPlans
    /\ planCalls' = planCalls + 1
    /\ planInput' = [remaining |-> current_command, history |-> previous_steps]

\* step = parse_command(...) raises (generate_content, json.loads)
RunPlanRaises ==
    /\ runpc = "plan"
    /\ variant = "kk"
    /\ PlanCalled
    /\ planFailed' = TRUE
    /\ RunAborts("planner")
    /\ UNCHANGED <<sessionVars, queueVars, wireVars, callerVars, clockVars,
                   navVars, callBudget, pageVars, omVars, launchVars, moreVars, step, previous_steps,
                   current_command, success, attemptsMade, anyFailed,
                   primAfterPlanFail, stepsLeft>>

\* step = parse_command(...) returns st; if step['completed']: break (a KeyError
\* without the key); else success = False and the attempt loop begins.
\* After the break: return True
RunPlan(st) ==
    /\ runpc = "plan"
    /\ variant = "kk"
    /\ PlanCalled
    /\ step' = st
    /\ attemptsMade' = 0
    /\ success' = FALSE
    /\ IF st.shape = "noCompleted" THEN RunAborts("keyerror")
       ELSE IF StopsOn(st)
            THEN runpc' = "done" /\ runStatus' = "success" /\ UNCHANGED abortCause
            ELSE runpc' = "attempt" /\ UNCHANGED <<runStatus, abortCause>>
    /\ UNCHANGED <<sessionVars, queueVars, wireVars, callerVars, clockVars,
                   navVars, callBudget, pageVars, omVars, launchVars, moreVars, previous_steps,
                   current_command, anyFailed, planFailed, primAfterPlanFail,
                   stepsLeft>>


\* the actions that go to the page through an interaction primitive
IsInteraction(a) == a \in {"navigate", "click", "type", "press_enter"}

\* for attempt in range(max_attempts): ...; if success: break.
\* a: attempts made so far, ok: the value of success
MoreAttemptsAfterSuccess(a, ok) == a < max_attempts
MoreAttempts(a, ok) == ~ok /\ a < max_attempts

\* one attempt: the branch of step['action'] gives success its value, or raises
\* into `except Exception as e', which leaves success alone
RunAttempt(out) ==
    /\ runpc = "attempt"
    /\ out \in AttemptOutcomes(step.action)
    /\ attemptsMade' = attemptsMade + 1
    /\ success' = (out = "true")
    /\ primAfterPlanFail' = (primAfterPlanFail \/ (planFailed /\ IsInteraction(step.action)))
    /\ runpc' = IF MoreAttempts(attemptsMade + 1, out = "true") THEN "attempt" ELSE "record"
    /\ UNCHANGED <<sessionVars, queueVars, wireVars, callerVars, clockVars,
                   navVars, callBudget, pageVars, omVars, launchVars, moreVars, step, previous_steps,
                   current_command, runStatus, planCalls, anyFailed, planFailed,
                   abortCause, planInput, stepsLeft>>

\* previous_steps.append(step) comes after the attempt loop whatever success is
AppendsStepOnSuccess(ok) == ok
AppendsStep(ok) == TRUE

\* after the loop: if not success: logger.warning(... step['action'] ...
\* step['description'] ...); previous_steps.append(step);
\* current_command = step['remaining_command'];
\* completion_status = step.get('completed', False); time.sleep(2)
RunRecord ==
    /\ runpc = "record"
    /\ anyFailed' = (anyFailed \/ ~success)
    /\ IF ~success /\ step.shape = "noDescription"
       THEN /\ RunAborts("keyerror")
            /\ UNCHANGED <<previous_steps, current_command>>
       ELSE /\ previous_steps' =
                IF AppendsStep(success)
                THEN Append(previous_steps, [n |-> step.n, action |-> step.action])
                ELSE previous_steps
            /\ IF step.shape = "noRemaining"
               THEN RunAborts("keyerror") /\ UNCHANGED current_command
               ELSE /\ current_command' = step.n
                    /\ runpc' = "snapshot"
                    /\ UNCHANGED <<runStatus, abortCause>>
    /\ UNCHANGED <<sessionVars, queueVars, wireVars, callerVars, clockVars,
                   navVars, callBudget, pageVars, omVars, launchVars, moreVars, step, success,
                   planCalls, attemptsMade, planFailed, primAfterPlanFail,
                   planInput, stepsLeft>>

(* ---------------- ooo.py: execute_natural_language_command ------------- *)
\* the steps parse_natural_language_command returns when the planner has
\* failed and the command names youtube and a search
CannedActions == <<"navigate", "click", "type", "press_enter", "wait", "click">>

\* execute(): result = execute_natural_language_command(command, browser_type)
OooStart ==
    /\ runpc = "idle"
    /\ variant = "ooo"
    /\ runpc' = "launch"
    /\ UNCHANGED <<sessionVars, queueVars, wireVars, callerVars, clockVars,
                   navVars, callBudget, pageVars, omVars, launchVars, moreVars, step, previous_steps,
                   current_command, success, runStatus, planCalls, attemptsMade,
                   anyFailed, planFailed, primAfterPlanFail, abortCause,
                   planInput, stepsLeft>>

\* controller.start_browser(); controller.connect(): an exception goes to
\* the except of the run
OooLaunch(ok) ==
    /\ runpc = "launch"
    /\ variant = "ooo"
    /\ IF ok THEN runpc' = "plan" /\ UNCHANGED <<runStatus, abortCause>>
       ELSE RunAborts("launch")
    /\ UNCHANGED <<sessionVars, queueVars, wireVars, callerVars, clockVars,
                   navVars, callBudget, pageVars, omVars, launchVars, moreVars, step, previous_steps,
                   current_command, success, planCalls, attemptsMade,
                   anyFailed, planFailed, primAfterPlanFail, planInput, stepsLeft>>

\* steps = parse_natural_language_command(command), the planner answering with
\* a list of k steps
OooPlan(k) ==
    /\ runpc = "plan"
    /\ variant = "ooo"
    /\ PlanCalled
    /\ stepsLeft' = k
    /\ runpc' = "steps"
    /\ UNCHANGED <<sessionVars, queueVars, wireVars, callerVars, clockVars,
                   navVars, callBudget, pageVars, omVars, launchVars, moreVars, step, previous_steps,
                   current_command, success, runStatus, attemptsMade, anyFailed,
                   planFailed, primAfterPlanFail, abortCause>>

\* parse_natural_language_command, its except branch: the canned steps if
\* "youtube" in command.lower() and "search" in command.lower(), else `raise'
OooPlanFails(canned) ==
    /\ runpc = "plan"
    /\ variant = "ooo"
    /\ PlanCalled
    /\ planFailed' = TRUE
    /\ IF canned
       THEN /\ stepsLeft' = Len(CannedActions)
            /\ runpc' = "steps"
            /\ UNCHANGED <<runStatus, abortCause>>
       ELSE RunAborts("planner") /\ UNCHANGED stepsLeft
    /\ UNCHANGED <<sessionVars, queueVars, wireVars, callerVars, clockVars,
                   navVars, callBudget, pageVars, omVars, launchVars, moreVars, step, previous_steps,
                   current_command, success, attemptsMade, anyFailed,
                   primAfterPlanFail>>

\* one round of `for i, step in enumerate(steps)': the primitives of the step
\* run; an exception of theirs ends the run in the except branch
OooStep(ok) ==
    /\ runpc = "steps"
    /\ stepsLeft > 0
    /\ primAfterPlanFail' = (primAfterPlanFail \/ planFailed)
    /\ IF ok
       THEN stepsLeft' = stepsLeft - 1 /\ UNCHANGED <<runpc, runStatus, abortCause>>
       ELSE RunAborts("step") /\ UNCHANGED stepsLeft
    /\ UNCHANGED <<sessionVars, queueVars, wireVars, callerVars, clockVars,
                   navVars, callBudget, pageVars, omVars, launchVars, moreVars, step, previous_steps,
                   current_command, success, planCalls, attemptsMade, anyFailed,
                   planFailed, planInput>>

\* return {"status": "success", ...}
OooFinish ==
    /\ runpc = "steps"
    /\ stepsLeft = 0
    /\ runpc' = "done"
    /\ runStatus' = "success"
    /\ UNCHANGED <<sessionVars, queueVars, wireVars, callerVars, clockVars,
                   navVars, callBudget, pageVars, omVars, launchVars, moreVars, step, previous_steps,
                   current_command, success, planCalls, attemptsMade, anyFailed,
                   planFailed, primAfterPlanFail, abortCause, planInput, stepsLeft>>

\* SpecRun: one run of the orchestrator, the planner and the primitives
\* answering in every way they can.
InitRun ==
    /\ variant \in {"kk", "ooo"}
    /\ InitController
    /\ InitIdle
    /\ callBudget = 0
    /\ dom = <<>>

NextRun ==
    \/ RunStart
    \/ \E ok \in BOOLEAN : RunLaunch(ok)
    \/ \E ok \in BOOLEAN : RunSnapshot(ok)
    \/ RunPlanRaises
    \/ \E st \in PlannerSteps(planCalls + 1) : RunPlan(st)
    \/ \E out \in {"true", "false", "raise"} : RunAttempt(out)
    \/ RunRecord
    \/ OooStart
    \/ \E ok \in BOOLEAN : OooLaunch(ok)
    \/ \E k \in 0..MaxPlans : OooPlan(k)
    \/ \E canned \in BOOLEAN : OooPlanFails(canned)
    \/ \E ok \in BOOLEAN : OooStep(ok)
    \/ OooFinish

SpecRun == InitRun /\ [][NextRun]_vars


\* C15: a step gets at most max_attempts attempts, none after a successful one,
\* and the loop is left for the record of the step once they are used up.
ClaimC15 ==
    /\ attemptsMade <= max_attempts
    /\ runpc = "attempt" => (~success /\ attemptsMade < max_attempts)
    /\ runpc = "record" => (success \/ attemptsMade = max_attempts)

\* a step has failed max_attempts times and the run goes on to record it
WitnessC15 == runpc = "record" /\ ~success /\ attemptsMade = max_attempts

\* C16: the history holds the planner's uncompleted steps in their order, each
\* once, failed or not; and every planner call is given the remaining_command
\* of the step before it and the whole history so far.
ClaimC16 ==
    /\ \A i \in DOMAIN previous_steps : previous_steps[i].n = i
    /\ runpc \in {"snapshot", "plan"} =>
            (Len(previous_steps) = planCalls /\ current_command = planCalls)
    /\ (step.n >= 1 /\ step.shape = "full" /\ ~step.completed
            /\ runpc \notin {"attempt", "record"}) =>
            (previous_steps # <<>> /\ previous_steps[Len(previous_steps)].n = step.n)
    /\ planCalls >= 1 =>
            /\ planInput.remaining = planCalls - 1
            /\ Len(planInput.history) = planCalls - 1
            /\ \A i \in DOMAIN planInput.history : planInput.history[i].n = i

\* the second planner call is over, a step has failed, both steps are recorded
WitnessC16 ==
    /\ runpc = "plan"
    /\ planCalls = 2
    /\ anyFailed
    /\ Len(previous_steps) = 2

\* C17: on a step with completed = true the run is over at once: nothing is
\* attempted for it, it is not in the history, and the run reports success.
ClaimC17 ==
    step.completed =>
        /\ runpc = "done"
        /\ runStatus = "success"
        /\ attemptsMade = 0
        /\ Len(previous_steps) = planCalls - 1
        /\ \A i \in DOMAIN previous_steps : previous_steps[i].n # step.n

\* a navigate step was executed, the next planner step said completed
WitnessC17 ==
    /\ step.completed
    /\ Len(previous_steps) = 1
    /\ previous_steps[1].action = "navigate"
    /\ runStatus = "success"

\* C18: the run reports success only when no executed step failed.
ClaimC18 == runStatus = "success" => ~anyFailed

\* C19: the run ends in error only through a failed launch / connect or a
\* failed planner call.
ClaimC19 == runStatus = "error" => abortCause \in {"launch", "planner"}

\* C20: once the planner call has failed no interaction primitive runs, and the
\* run ends with status error.
ClaimC20 ==
    /\ ~primAfterPlanFail
    /\ (planFailed /\ runpc = "done") => runStatus = "error"

(* ------------------- the launcher and the run's frame ------------------ *)
\* ooo.py, newww.py: def __init__(self, browser_type='chrome', start_port=9222,
\* max_attempts=5); kk.py: self.port = 9222
start_port == 9222
default_max_attempts == 5

\* the discovery call of a successful attempt lists up to MaxTargets targets
MaxTargets == 1

\* the browser kinds a caller may hand to the run; "safari" stands for every
\* kind that __init__ rejects
BrowserTypes == {"chrome", "firefox", "safari"}

\* __init__: `if self.browser_type not in ['chrome', 'firefox']: raise ValueError'
Supported(bt) == bt \in {"chrome", "firefox"}

\* start_browser of ooo.py and newww.py is a loop over ports; kk.py's is one Popen
HasAttemptLoop(v) == v # "kk"

\* a launcher that starts every attempt on the first port
PortOfFixed(a) == start_port

\* start_browser: port = self.start_port + attempt
PortOf(a) == start_port + a

\* start_browser: f'--user-data-dir=C:\\Temp\\chrome_debug_{port}',
\* f'--profile=C:\\Temp\\firefox_debug_{port}'
ProfileDir(bt, p) == <<bt, "debug", p>>

\* close: is self.ws.close() inside a try whose except does not re-raise?
GuardsSocketClose(v) == v # "newww"

\* one attempt of start_browser as launchLog keeps it
Attempt(o) == [port |-> PortOf(attempt),
               profile |-> ProfileDir(browser_type, PortOf(attempt)),
               outcome |-> o]

\* self.process.kill() / self.process.terminate() on the process self.process names
Killed == alive \ {handle}

\* what no action of the run's frame touches
launchFrame == <<variant, queueVars, wireVars, callerVars, clockVars, navVars,
                 callBudget, pageVars, omVars, runVars, moreVars>>

\* the run entry point is called: controller = BrowserController(browser_type),
\* before the try.  kk.py: BrowserController() takes no browser kind.
LaunchEnter(bt) ==
    /\ launchpc = "idle"
    /\ variant = "kk" => bt = "chrome"
    /\ browser_type' = bt
    /\ IF variant = "kk"
       THEN /\ launchpc' = "kkstart"
            /\ port' = start_port
       ELSE /\ launchpc' = IF Supported(bt) THEN "loop" ELSE "raised"
            /\ UNCHANGED port
    /\ UNCHANGED <<launchFrame, process, ws, reader, attempt, handle, alive,
                   launchLog, startResult, startTargets, connectResult,
                   closeCalled, runResult>>

\* kk.py start_browser: self.process = subprocess.Popen(cmd); time.sleep(3).
\* A Popen that raises ends the run in its except.
KKLaunch(ok) ==
    /\ launchpc = "kkstart"
    /\ launchLog' = Append(launchLog, Attempt(IF ok THEN "ok" ELSE "oserror"))
    /\ IF ok
       THEN /\ process' = "running"
            /\ handle' = port
            /\ alive' = alive \cup {port}
            /\ startResult' = "returned"
            /\ launchpc' = "connect"
            /\ UNCHANGED runResult
       ELSE /\ startResult' = "raised"
            /\ runResult' = "error"
            /\ launchpc' = "finally"
            /\ UNCHANGED <<process, handle, alive>>
    /\ UNCHANGED <<launchFrame, ws, reader, browser_type, attempt, port,
                   startTargets, connectResult, closeCalled>>

\* start_browser, the head of an attempt: self.process = subprocess.Popen(cmd).
\*   "started":  the process runs; time.sleep(3)
\*   "notfound": Popen raised FileNotFoundError; the except kills whatever
\*               self.process still names and the loop goes on
\*   "oserror":  Popen raised another exception, which no except of
\*               start_browser catches
LaunchPopen(o) ==
    /\ launchpc = "loop"
    /\ attempt < default_max_attempts
    /\ CASE o = "started" ->
              /\ process' = "running"
              /\ handle' = PortOf(attempt)
              /\ alive' = alive \cup {PortOf(attempt)}
              /\ launchpc' = "probe"
              /\ UNCHANGED <<attempt, launchLog, startResult, runResult>>
         [] o = "notfound" ->
              /\ alive' = Killed
              /\ process' = IF handle = 0 THEN process ELSE "terminated"
              /\ attempt' = attempt + 1
              /\ launchLog' = Append(launchLog, Attempt(o))
              /\ UNCHANGED <<handle, launchpc, startResult, runResult>>
         [] o = "oserror" ->
              /\ launchLog' = Append(launchLog, Attempt(o))
              /\ startResult' = "raised"
              /\ runResult' = "error"
              /\ launchpc' = "finally"
              /\ UNCHANGED <<process, handle, alive, attempt>>
    /\ UNCHANGED <<launchFrame, ws, reader, browser_type, port, startTargets,
                   connectResult, closeCalled>>

\* start_browser, the rest of an attempt:
\* response = requests.get(f'http://localhost:{port}/json/list', timeout=5).
\*   "refused": the call raised a RequestException (nothing listens, or the
\*              timeout); the except kills the process and the loop goes on
\*   "non200":  an answer whose status_code is not 200; the loop goes on
\*   "ok":      status_code == 200, the list holding n targets; self.port = port
LaunchProbe(o, n) ==
    /\ launchpc = "probe"
    /\ launchLog' = Append(launchLog, Attempt(o))
    /\ CASE o = "refused" ->
              /\ n = 0
              /\ alive' = Killed
              /\ process' = "terminated"
              /\ attempt' = attempt + 1
              /\ launchpc' = "loop"
              /\ UNCHANGED <<port, startResult, startTargets>>
         [] o = "non200" ->
              /\ n = 0
              /\ attempt' = attempt + 1
              /\ launchpc' = "loop"
              /\ UNCHANGED <<alive, process, port, startResult, startTargets>>
         [] o = "ok" ->
              /\ port' = PortOf(attempt)
              /\ startTargets' = n
              /\ startResult' = "returned"
              /\ launchpc' = "connect"
              /\ UNCHANGED <<alive, process, attempt>>
    /\ UNCHANGED <<launchFrame, ws, reader, browser_type, handle, connectResult,
                   closeCalled, runResult>>

\* start_browser: the loop is over; raise Exception("Failed to start ...")
LaunchExhausted ==
    /\ launchpc = "loop"
    /\ attempt >= default_max_attempts
    /\ startResult' = "raised"
    /\ runResult' = "error"
    /\ launchpc' = "finally"
    /\ UNCHANGED <<launchFrame, process, ws, reader, browser_type, attempt, port,
                   handle, alive, launchLog, startTargets, connectResult,
                   closeCalled>>

\* connect.  ooo.py, newww.py: pages = response.json();
\* self.ws_url = pages[0]['webSocketDebuggerUrl'] raises IndexError on an empty
\* list; self.ws.connect(url) connects or raises.  kk.py: five tries, each asking
\* `response.status_code == 200 and response.json()' first; False after the last.
LaunchConnect(o) ==
    /\ launchpc = "connect"
    /\ o \in {"connected", "refused"}
    /\ LET r == IF HasAttemptLoop(variant) /\ startTargets = 0 THEN "noTarget" ELSE o
       IN  /\ connectResult' = r
           /\ IF r = "connected"
              THEN /\ ws' = "open"
                   /\ reader' = "running"
                   /\ launchpc' = "body"
                   /\ UNCHANGED runResult
              ELSE /\ runResult' = "error"
                   /\ launchpc' = "finally"
                   /\ UNCHANGED <<ws, reader>>
    /\ UNCHANGED <<launchFrame, process, browser_type, attempt, port, handle,
                   alive, launchLog, startResult, startTargets, closeCalled>>

\* the steps of the run: every one done (`return {"status": "success", ...}',
\* kk.py: return True), or an exception reached the except of the run
\* (`return {"status": "error", ...}', kk.py: return False)
LaunchBody(ok) ==
    /\ launchpc = "body"
    /\ runResult' = IF ok THEN "success" ELSE "error"
    /\ launchpc' = "finally"
    /\ UNCHANGED <<launchFrame, process, ws, reader, browser_type, attempt, port,
                   handle, alive, launchLog, startResult, startTargets,
                   connectResult, closeCalled>>

\* the finally of the run.  kk.py: `finally: pass'.  ooo.py, newww.py:
\* controller.close():
\*     if self.ws: self.ws.close()              (ooo.py: in a try/except)
\*     if self.process: self.process.terminate()
\* wsOk: self.ws.close() returns; otherwise it raises.
LaunchFinally(wsOk) ==
    /\ launchpc = "finally"
    /\ ws # "open" => wsOk
    /\ IF ~HasAttemptLoop(variant)
       THEN /\ wsOk
            /\ launchpc' = "returned"
            /\ UNCHANGED <<process, ws, alive, closeCalled>>
       ELSE /\ closeCalled' = TRUE
            /\ ws' = IF ws = "open" /\ wsOk THEN "closed" ELSE ws
            /\ IF wsOk \/ GuardsSocketClose(variant)
               THEN /\ alive' = Killed
                    /\ process' = IF handle = 0 THEN process ELSE "terminated"
                    /\ launchpc' = "returned"
               ELSE /\ launchpc' = "raised"
                    /\ UNCHANGED <<alive, process>>
    /\ UNCHANGED <<launchFrame, reader, browser_type, attempt, port, handle,
                   launchLog, startResult, startTargets, connectResult, runResult>>

\* SpecLaunch: one call of the run entry point, from the constructor to the
\* return, the operating system, the discovery endpoint and the socket
\* answering in every way they can.
InitLaunch ==
    /\ variant \in Variants
    /\ InitController
    /\ InitIdle
    /\ callBudget = 0
    /\ dom = <<>>

NextLaunch ==
    \/ \E bt \in BrowserTypes : LaunchEnter(bt)
    \/ \E ok \in BOOLEAN : KKLaunch(ok)
    \/ \E o \in {"started", "notfound", "oserror"} : LaunchPopen(o)
    \/ \E o \in {"refused", "non200", "ok"}, n \in 0..MaxTargets : LaunchProbe(o, n)
    \/ LaunchExhausted
    \/ \E o \in {"connected", "refused"} : LaunchConnect(o)
    \/ \E ok \in BOOLEAN : LaunchBody(ok)
    \/ \E wsOk \in BOOLEAN : LaunchFinally(wsOk)

SpecLaunch == InitLaunch /\ [][NextLaunch]_vars

\* C21: for every instruction and every browser kind the run entry point
\* returns a result whose status is success, partial or error; it never
\* raises to its caller.
ClaimC21 ==
    /\ launchpc # "raised"
    /\ launchpc = "returned" => runResult \in {"success", "partial", "error"}

\* C22: when the run has returned, whatever the exit path, close() has been
\* called, the socket is not open and no process this run started is alive.
ClaimC22 ==
    launchpc = "returned" => (closeCalled /\ ws # "open" /\ alive = {})

\* C23: once close() has run, the process the controller holds a handle of is
\* not alive, whether or not closing the socket raised.
ClaimC23 ==
    (closeCalled /\ handle # 0) => handle \notin alive

\* C24: at most one launched process is alive at any time, and none is alive
\* once start_browser has failed.
ClaimC24 ==
    /\ Cardinality(alive) <= 1
    /\ startResult = "raised" => alive = {}

\* an attempt of start_browser got status 200 from the discovery call
Succeeded == \E i \in DOMAIN launchLog : launchLog[i].outcome = "ok"

\* C25: start_browser makes at most max_attempts attempts, attempt i on port
\* start_port + i with a profile directory no other attempt uses; self.port is
\* set only to the port of the attempt that succeeded; and start_browser raises
\* exactly when it ends with no attempt having succeeded.
ClaimC25 ==
    HasAttemptLoop(variant) =>
      /\ Len(launchLog) <= default_max_attempts
      /\ \A i \in DOMAIN launchLog : launchLog[i].port = start_port + (i - 1)
      /\ \A i, j \in DOMAIN launchLog :
            i # j => launchLog[i].profile # launchLog[j].profile
      /\ port # 0 => /\ launchLog # <<>>
                     /\ launchLog[Len(launchLog)].outcome = "ok"
                     /\ launchLog[Len(launchLog)].port = port
      /\ startResult = "raised" => ~Succeeded
      /\ startResult = "returned" => Succeeded
      /\ launchpc \in {"connect", "body", "finally", "returned"} => startResult # "none"
      /\ (launchpc = "loop" /\ attempt >= default_max_attempts) => ~Succeeded

\* start_browser returned on its third attempt, after two that failed
WitnessC25 ==
    /\ HasAttemptLoop(variant)
    /\ startResult = "returned"
    /\ Len(launchLog) = 3
    /\ port = start_port + 2

\* C26: start_browser returns only when the discovery call listed at least one
\* target, and the connect that follows never fails for want of a first target.
ClaimC26 ==
    /\ (HasAttemptLoop(variant) /\ startResult = "returned") => startTargets >= 1
    /\ connectResult # "noTarget"

(* --------------------------- the event backlog ------------------------- *)
\* the events the browser sends in a behaviour of SpecEvents
MaxEvents == 3

\* the browser sends an event
BrowserEvent(f) ==
    /\ ws = "open"
    /\ noise < MaxEvents
    /\ noise' = noise + 1
    /\ ws_in' = Append(ws_in, f)
    /\ UNCHANGED <<sessionVars, queueVars, wire_out, callerVars, clockVars, otherVars>>

\* SpecEvents: a connected session whose browser sends events while no
\* navigate is waiting: the message handler routes them and nothing takes
\* them off event_queue (kk.py never reads event_queue at all).
NextEvents ==
    \/ StartBrowser
    \/ Connect
    \/ \E f \in EventNoise : BrowserEvent(f)
    \/ ReaderRecv
    \/ ReaderFail
    \/ PeerClose
    \/ Close

SpecEvents == Init /\ [][NextEvents]_vars

\* C30: the session never holds as many unconsumed events as the browser has
\* sent once these exceed the backlog, here any backlog below MaxEvents: an
\* inbound event beyond it is dropped.
ClaimC30 == Len(event_queue) < MaxEvents

(* ------------------------- the reader's routing ------------------------ *)
\* a decoded frame that carries an id and a method name, the method being
\* Page.loadEventFired
BothFrame == [StrayFrame EXCEPT !.hasMethod = TRUE, !.method = "Page.loadEventFired"]

\* the frames the peer may write: the frames of NoiseFrames and one with both keys
InboundFrames == NoiseFrames \cup {BothFrame}

\* SpecRoute: a connected session whose peer writes frames of every shape, the
\* message handler taking them one by one.
NextRoute ==
    \/ StartBrowser
    \/ Connect
    \/ \E f \in InboundFrames : BrowserEvent(f)
    \/ ReaderRecv
    \/ ReaderFail
    \/ PeerClose
    \/ Close

SpecRoute == Init /\ [][NextRoute]_vars

\* the message handler takes a frame that json.loads decodes
TakesDecoded ==
    /\ reader = "running"
    /\ ws_in # <<>>
    /\ ws_in' = Tail(ws_in)
    /\ ws' = ws
    /\ Head(ws_in).text = "json"

\* C31: the reader routes every decoded frame to exactly one path: one with an
\* id to the response path and not to the event path (the event queue and the
\* load latch), one with a method and no id to the event path only, and one
\* with neither to no path, the reader running on.
ClaimC31 ==
    [][TakesDecoded =>
         LET f == Head(ws_in) IN
           /\ reader' = "running"
           /\ f.hasId => /\ response_queue' = Append(response_queue, f)
                         /\ event_queue' = event_queue
                         /\ page_loaded' = page_loaded
           /\ (~f.hasId /\ f.hasMethod) => /\ event_queue' = Append(event_queue, f)
                                           /\ response_queue' = response_queue
           /\ (~f.hasId /\ ~f.hasMethod) => UNCHANGED queueVars]_vars

(* --------------------------- kk.py: connect ---------------------------- *)
\* connect: max_retries = 5
max_retries == 5

\* what no action of connect touches
connFrame == <<variant, process, queueVars, wireVars, callerVars, clockVars,
               navVars, callBudget, pageVars, omVars, runVars, launchVars,
               pressResult, autoVars>>

\* the rest of a try that failed: time.sleep(2) and the next round of
\* `for attempt in range(max_retries)', or return False after the last
ConnAgain ==
    /\ retry' = retry + 1
    /\ IF retry + 1 < max_retries
       THEN connpc' = "discover" /\ UNCHANGED connected
       ELSE connpc' = "done" /\ connected' = "False"

\* connect is called, the browser started
ConnStart ==
    /\ variant = "kk"
    /\ connpc = "idle"
    /\ process = "running"
    /\ connpc' = "discover"
    /\ UNCHANGED <<connFrame, ws, reader, retry, sockets, readers, connected>>

\* response = requests.get(.../json/list);
\* `if response.status_code == 200 and response.json():'
\* ok: so it is; otherwise the warning of the else, or the call raised
ConnDiscover(ok) ==
    /\ connpc = "discover"
    /\ IF ok THEN connpc' = "open" /\ UNCHANGED <<retry, connected>>
       ELSE ConnAgain
    /\ UNCHANGED <<connFrame, ws, reader, sockets, readers>>

\* self.ws = websocket.WebSocket(); self.ws.connect(debugger_url);
\* threading.Thread(target=self._message_handler, daemon=True).start()
\* ok: the socket connected; otherwise ws.connect raised.  Nothing closes the
\* socket self.ws named before, and the thread started for it goes on.
ConnOpen(ok) ==
    /\ connpc = "open"
    /\ IF ok
       THEN /\ ws' = "open"
            /\ reader' = "running"
            /\ sockets' = sockets + 1
            /\ readers' = readers + 1
            /\ connpc' = "enable"
            /\ UNCHANGED <<retry, connected>>
       ELSE /\ ConnAgain
            /\ UNCHANGED <<ws, reader, sockets, readers>>
    /\ UNCHANGED connFrame

\* self.send_command("Page.enable", {}); self.send_command("DOM.enable", {});
\* self.send_command("Runtime.enable", {}); return True
\* ok: the three returned; otherwise one of them raised (its response did not
\* come within 10 s, or carried an error) and the except goes to the next try
ConnEnable(ok) ==
    /\ connpc = "enable"
    /\ IF ok THEN connpc' = "done" /\ connected' = "True" /\ UNCHANGED retry
       ELSE ConnAgain
    /\ UNCHANGED <<connFrame, ws, reader, sockets, readers>>

\* the browser closes one of the sockets; the thread reading it gets an
\* exception from self.ws.recv() and breaks
ConnPeerCloses ==
    /\ sockets > 0
    /\ readers > 0
    /\ sockets' = sockets - 1
    /\ readers' = readers - 1
    /\ ws' = IF sockets = 1 THEN "peerclosed" ELSE ws
    /\ reader' = IF readers = 1 THEN "stopped" ELSE reader
    /\ UNCHANGED <<connFrame, connpc, retry, connected>>

\* a message handler thread gets a message json.loads rejects and breaks; its
\* socket stays open
ConnReaderBreaks ==
    /\ readers > 0
    /\ readers' = readers - 1
    /\ reader' = IF readers = 1 THEN "stopped" ELSE reader
    /\ UNCHANGED <<connFrame, ws, connpc, retry, sockets, connected>>

\* SpecConnect: kk.py's connect, the discovery endpoint, the socket and the
\* browser answering in every way they can.
InitConnect ==
    /\ variant = "kk"
    /\ InitController
    /\ InitIdle
    /\ callBudget = 0
    /\ dom = <<>>

NextConnect ==
    \/ StartBrowser
    \/ ConnStart
    \/ \E ok \in BOOLEAN : ConnDiscover(ok)
    \/ \E ok \in BOOLEAN : ConnOpen(ok)
    \/ \E ok \in BOOLEAN : ConnEnable(ok)
    \/ ConnPeerCloses
    \/ ConnReaderBreaks

SpecConnect == InitConnect /\ [][NextConnect]_vars

\* C33: at any time the session has at most one open socket and at most one
\* reader thread, also when connect tries again after a try that opened the
\* socket and then failed.
ClaimC33 == sockets <= 1 /\ readers <= 1


(* ------------- the run and the waits of its commands together ---------- *)
\* The run on the main thread, each attempt of a step sending one command
\* with send_command; the browser answers the command or stays silent.

\* the run is past start_browser() and connect(), before the first planner call
LiveStart ==
    /\ runpc = "idle"
    /\ variant \in {"kk", "ooo"}
    /\ ws = "open"
    /\ pc[Main] = "idle"
    /\ runpc' = "plan"
    /\ UNCHANGED <<sessionVars, queueVars, wireVars, clockVars, navVars,
                   callBudget, pageVars, omVars, launchVars, moreVars, step,
                   previous_steps, current_command, success, anyFailed,
                   planFailed, primAfterPlanFail, planInput, runStatus, abortCause, planCalls, attemptsMade, stepsLeft,
                   outcome, pc, cmd_id, tmp, waited, got, errInfo, call, calls, allocLog, sent, crossTalk, command_id, lock>>

\* kk.py: step = parse_command(...); if step['completed']: break, and
\* return True; else the attempt loop.  The planner says completed at call
\* MaxPlans at the latest.
LivePlan(completed) ==
    /\ runpc = "plan"
    /\ variant = "kk"
    /\ planCalls < MaxPlans
    /\ planCalls + 1 = MaxPlans => completed
    /\ planCalls' = planCalls + 1
    /\ attemptsMade' = 0
    /\ IF StopsOn([completed |-> completed])
       THEN runpc' = "done" /\ runStatus' = "success"
       ELSE runpc' = "attempt" /\ UNCHANGED runStatus
    /\ UNCHANGED <<sessionVars, queueVars, wireVars, clockVars, navVars,
                   callBudget, pageVars, omVars, launchVars, moreVars, step,
                   previous_steps, current_command, success, anyFailed,
                   planFailed, primAfterPlanFail, planInput, abortCause, stepsLeft, outcome, pc, cmd_id, tmp, waited, got, errInfo, call, calls, allocLog, sent, crossTalk, command_id, lock>>

\* ooo.py: steps = parse_natural_language_command(command), a list of k
\* steps; for i, step in enumerate(steps); return {"status": "success", ...}
\* after the last
LiveSteps(k) ==
    /\ runpc = "plan"
    /\ variant = "ooo"
    /\ planCalls = 0
    /\ planCalls' = 1
    /\ stepsLeft' = k
    /\ IF k = 0
       THEN runpc' = "done" /\ runStatus' = "success"
       ELSE runpc' = "attempt" /\ UNCHANGED runStatus
    /\ UNCHANGED <<sessionVars, queueVars, wireVars, clockVars, navVars,
                   callBudget, pageVars, omVars, launchVars, moreVars, step,
                   previous_steps, current_command, success, anyFailed,
                   planFailed, primAfterPlanFail, planInput, abortCause, attemptsMade, outcome, pc, cmd_id, tmp, waited, got, errInfo, call, calls, allocLog, sent, crossTalk, command_id, lock>>

\* the primitive of the step calls send_command
LiveCommand ==
    /\ runpc = "attempt"
    /\ outcome[Main] = "none"
    /\ KKRead(Main) \/ LockedSend(Main)

\* the send_command of the step has returned or raised.  kk.py: `if success:
\* break', else the next of max_attempts attempts, then the next planner call.
\* ooo.py: the next step of the list, return after the last; an exception
\* goes to the except of the run
LiveStepEnds ==
    /\ runpc = "attempt"
    /\ pc[Main] = "idle"
    /\ outcome[Main] # "none"
    /\ outcome' = [outcome EXCEPT ![Main] = "none"]
    /\ IF variant = "kk"
       THEN /\ attemptsMade' = attemptsMade + 1
            /\ runpc' = IF MoreAttempts(attemptsMade + 1, outcome[Main] = "result")
                        THEN "attempt" ELSE "plan"
            /\ UNCHANGED <<stepsLeft, runStatus, abortCause>>
       ELSE /\ IF outcome[Main] # "result" THEN RunAborts("step") /\ UNCHANGED stepsLeft
               ELSE /\ stepsLeft' = stepsLeft - 1
                    /\ runpc' = IF stepsLeft = 1 THEN "done" ELSE "attempt"
                    /\ runStatus' = IF stepsLeft = 1 THEN "success" ELSE runStatus
                    /\ UNCHANGED abortCause
            /\ UNCHANGED attemptsMade
    /\ UNCHANGED <<sessionVars, queueVars, wireVars, clockVars, navVars,
                   callBudget, pageVars, omVars, launchVars, moreVars, step,
                   previous_steps, current_command, success, anyFailed,
                   planFailed, primAfterPlanFail, planInput, planCalls, pc, cmd_id, tmp, waited, got, errInfo, call, calls, allocLog, sent, crossTalk, command_id, lock>>

\* the browser answers the command the run is waiting on, with a result or
\* with an error; when it does not, it stays silent on that command for good
LiveAnswer(err) ==
    /\ pc[Main] = "wait"
    /\ \E c \in wire_out : c.call = call[Main] /\ BrowserRespond(c, err)

InitLive ==
    /\ variant \in {"kk", "ooo"}
    /\ InitController
    /\ InitIdle
    /\ callBudget = MaxPlans * max_attempts
    /\ dom = <<>>

\* what the program and the clock do: every thread that can run does run,
\* and time passes
LiveProgram ==
    \/ StartBrowser
    \/ Connect
    \/ LiveStart
    \/ \E completed \in BOOLEAN : LivePlan(completed)
    \/ \E k \in 0..MaxPlans : LiveSteps(k)
    \/ LiveCommand
    \/ LiveStepEnds
    \/ KKLoad(Main)
    \/ KKStore(Main)
    \/ KKSend(Main)
    \/ KKGet(Main)
    \/ KKTimeout(Main)
    \/ LockedGet(Main)
    \/ ReaderRecv
    \/ Tick

NextLive ==
    \/ LiveProgram
    \/ \E err \in BOOLEAN : LiveAnswer(err)

\* SpecLive: the threads of the program are scheduled and the clock advances
\* (weak fairness on their steps); nothing obliges the browser to answer.
SpecLive == InitLive /\ [][NextLive]_vars /\ WF_vars(LiveProgram)

\* C36: a run whose planner says completed after finitely many calls returns,
\* whether the browser answers a command or stays silent on it.
ClaimC36 == <>(runpc = "done")


(* ----------------- om.py: execute_browser_automation ------------------- *)
\* the most steps an instruction list has here
MaxSteps == 2

\* the actions execute_browser_automation has a branch for
Implemented == {"navigate", "click", "type", "wait", "screenshot", "download", "extract"}

\* the actions a step can name: "hover" stands for every action without a branch
StepActions == Implemented \cup {"hover"}

\* what the params of a wait step hold: 'time', 'selector' (without 'time'),
\* or neither
WaitParams == {"time", "selector", "none"}

\* instructions.get('steps', []): the steps the planner can have written
AutoSteps ==
    {[action |-> a, params |-> p] : a \in StepActions \ {"wait"}, p \in {"none"}}
        \cup {[action |-> "wait", params |-> p] : p \in WaitParams}

InstructionLists == UNION {[1..n -> AutoSteps] : n \in 0..MaxSteps}

\* the step reaches a branch of the if/elif chain that does something: an
\* action without a branch, and a wait with neither 'time' nor 'selector',
\* fall through to the append
HasBranch(st) ==
    /\ st.action \in Implemented
    /\ st.action = "wait" => st.params # "none"

\* step_result = {"action": action, "status": "success"}, and in the except
\* branch step_result["status"] = "error".  carried: the branch of the action
\* ran to its end (not a field of the code's dict)
StepResult(st, raised) ==
    [action |-> st.action,
     status |-> IF raised THEN "error" ELSE "success",
     carried |-> HasBranch(st) /\ ~raised]

\* if any(step["status"] == "error" for step in results["steps_results"]):
\*     results["status"] = "partial_success"
OverallStatusAlwaysSuccess(rs) == "success"
OverallStatus(rs) ==
    IF \E i \in DOMAIN rs : rs[i].status = "error" THEN "partial_success" ELSE "success"

\* execute_browser_automation returns {"status": "error", "message": ...}
AutoError ==
    /\ autopc' = "done"
    /\ results_status' = "error"

\* execute_browser_automation(instructions, browser_type) is entered:
\* results = {"status": "success", "steps_results": [], ...}
AutoStart(ins) ==
    /\ autopc = "idle"
    /\ variant = "om"
    /\ instructions' = ins
    /\ steps_results' = <<>>
    /\ results_status' = "success"
    /\ step_index' = 0
    /\ autopc' = "launch"
    /\ UNCHANGED <<sessionVars, queueVars, wireVars, callerVars, clockVars,
                   navVars, callBudget, pageVars, omVars, runVars, launchVars,
                   pressResult, connVars>>

\* if browser_type.lower() == 'chrome': driver = webdriver.Chrome(...) else:
\* return {"status": "error", "message": "Unsupported browser type"}; an
\* exception of webdriver.Chrome goes to the outer except
AutoLaunch(o) ==
    /\ autopc = "launch"
    /\ IF o = "driver" THEN autopc' = "loop" /\ UNCHANGED results_status
       ELSE AutoError
    /\ UNCHANGED <<sessionVars, queueVars, wireVars, callerVars, clockVars,
                   navVars, callBudget, pageVars, omVars, runVars, launchVars,
                   pressResult, connVars,
                   instructions, step_index, steps_results>>

\* one round of `for step_index, step in enumerate(...)': the branch of the
\* action runs, or raises into `except Exception as e'; either way
\* results["steps_results"].append(step_result)
AutoStep(raised) ==
    /\ autopc = "loop"
    /\ step_index < Len(instructions)
    /\ raised => HasBranch(instructions[step_index + 1])
    /\ steps_results' = Append(steps_results,
                               StepResult(instructions[step_index + 1], raised))
    /\ step_index' = step_index + 1
    /\ UNCHANGED <<sessionVars, queueVars, wireVars, callerVars, clockVars,
                   navVars, callBudget, pageVars, omVars, runVars, launchVars,
                   pressResult, connVars,
                   autopc, instructions, results_status>>

\* the loop is over: results["status"] = "partial_success" if a step failed
AutoEnd ==
    /\ autopc = "loop"
    /\ step_index = Len(instructions)
    /\ results_status' = OverallStatus(steps_results)
    /\ autopc' = "final"
    /\ UNCHANGED <<sessionVars, queueVars, wireVars, callerVars, clockVars,
                   navVars, callBudget, pageVars, omVars, runVars, launchVars,
                   pressResult, connVars,
                   instructions, step_index, steps_results>>

\* driver.save_screenshot("final_state.png"); open(...); return results.
\* An exception here goes to the outer except
AutoFinal(ok) ==
    /\ autopc = "final"
    /\ IF ok THEN autopc' = "done" /\ UNCHANGED results_status
       ELSE AutoError
    /\ UNCHANGED <<sessionVars, queueVars, wireVars, callerVars, clockVars,
                   navVars, callBudget, pageVars, omVars, runVars, launchVars,
                   pressResult, connVars,
                   instructions, step_index, steps_results>>

\* SpecAuto: one call of execute_browser_automation on any list of steps, the
\* driver doing or failing each of them.
InitAuto ==
    /\ variant = "om"
    /\ InitController
    /\ InitIdle
    /\ callBudget = 0
    /\ dom = <<>>

NextAuto ==
    \/ \E ins \in InstructionLists : AutoStart(ins)
    \/ \E o \in {"driver", "unsupported", "raised"} : AutoLaunch(o)
    \/ \E raised \in BOOLEAN : AutoStep(raised)
    \/ AutoEnd
    \/ \E ok \in BOOLEAN : AutoFinal(ok)

SpecAuto == InitAuto /\ [][NextAuto]_vars

\* one step result per step so far, in step order
OnePerStep ==
    /\ Len(steps_results) = step_index
    /\ \A i \in DOMAIN steps_results : steps_results[i].action = instructions[i].action

\* C38 as stated: every call ends with one step result per step, in order, and
\* with status partial_success if a step result is an error and success if not.
ClaimC38 ==
    /\ OnePerStep
    /\ autopc = "done" =>
        /\ Len(steps_results) = Len(instructions)
        /\ results_status =
             IF \E i \in DOMAIN steps_results : steps_results[i].status = "error"
             THEN "partial_success" ELSE "success"

\* C38, amended: one step result per step taken, in order; a call that returns
\* its results (it has not ended in the outer except or on an unsupported
\* browser) has a result for every step and status partial_success if a
\* step result is an error and success if not.
AmendedC38 ==
    /\ OnePerStep
    /\ (autopc = "done" /\ results_status # "error") =>
        /\ Len(steps_results) = Len(instructions)
        /\ results_status =
             IF \E i \in DOMAIN steps_results : steps_results[i].status = "error"
             THEN "partial_success" ELSE "success"

\* a call has returned its results after its first step failed and its second
\* step was run and succeeded
WitnessC38 ==
    /\ autopc = "done"
    /\ results_status = "partial_success"
    /\ Len(steps_results) = 2
    /\ steps_results[1].status = "error"
    /\ steps_results[2].status = "success"

\* C39: a step result says success only when the action of the step was
\* carried out.
ClaimC39 ==
    \A i \in DOMAIN steps_results :
        steps_results[i].status = "success" => steps_results[i].carried

====
